---- MODULE Spec2Model ----
(***************************************************************************)
(* A model of the opd-ai/gui widget toolkit: the Element tree node          *)
(* (geometry, visibility, children, handler chains, hit-testing, render     *)
(* delegation and event dispatch), the per-node sync.RWMutex, the Window    *)
(* lifecycle over the StubRenderer, and the Input, Button and Label         *)
(* components.                                                              *)
(***************************************************************************)
EXTENDS Integers, Sequences, FiniteSets, TLC

VARIABLES
    elem,   \* node -> Element struct (gui.go:55-64)
    call,   \* the most recent API call: operation, receiver, argument, result, call log
    win,    \* the Window struct's own fields (gui.go:198-205)
    rend,   \* the StubRenderer behind the window (stub.go:17-25)
    thr,    \* thread -> position inside the Element method it is executing
    mu,     \* the sync.RWMutex of the element the threads contend on
    inp,    \* the Input struct's own fields (components/input.go:19-38)
    btn,    \* the Button struct's own fields (components/button.go:23-49)
    lbl,    \* the Label struct's own fields (components/label.go:23-31)
    wid     \* node -> the fields of the Button or Input whose Element the node
            \* is, where widgets are the children of an element

vars == <<elem, call, win, rend, thr, mu, inp, btn, lbl, wid>>

-----------------------------------------------------------------------------
(* Bounds of the model *)

\* Go's int is a fixed-width two's-complement integer; the model keeps the
\* wrap-around of + but scales the width down: int ranges over MinInt..MaxInt.
MaxInt == 7
MinInt == -MaxInt - 1

\* cap on the total number of entries in all children slices
MaxEdges == 3

\* cap on the total number of registered handlers
MaxHandlers == 2

\* cap on the number of events queued in the renderer
MaxQueue == 2

\* cap on the children and on the handlers the contending threads add
MaxContended == 1

\* the longest text, in code points, typing may grow an Input to
MaxText == 3

\* the number of events the host dispatches one after the other while each
\* dispatch calls back into the tree
MaxDispatches == 1

\* the longest text, in glyphs, a Label is given to wrap
MaxLabelText == 5

\* the widest wrap width wrapText is called with
MaxWrapWidth == 4

-----------------------------------------------------------------------------
(* Elements *)

Nodes == {"P", "A", "B", "C"}
Root == "P"
Nil == "nil"

\* EventType (events file, const block)
EventTypeClick == "Click"
EventTypeKeyPress == "KeyPress"
EventTypeTextInput == "TextInput"
EventTypeFocus == "Focus"
EventTypeBlur == "Blur"
EventTypeMouseMove == "MouseMove"
EventTypeResize == "Resize"
EventTypes == {EventTypeClick, EventTypeKeyPress, EventTypeTextInput, EventTypeFocus,
               EventTypeBlur, EventTypeMouseMove, EventTypeResize}

\* An event: its kind and, for the positional kinds, its point.
NewClickEvent(px, py) == [type |-> EventTypeClick, X |-> px, Y |-> py]
NewMouseMoveEvent(px, py) == [type |-> EventTypeMouseMove, X |-> px, Y |-> py]
NewPlainEvent(t) == [type |-> t, X |-> 0, Y |-> 0]

\* An EventHandler is opaque code; the model knows its identity and what its
\* Handle returns.
Decline == [id |-> "decline", ret |-> FALSE]
Consume == [id |-> "consume", ret |-> TRUE]
Handlers == {Decline, Consume}

\* int addition as the machine performs it
IntAdd(a, b) == ((a + b - MinInt) % (MaxInt - MinInt + 1)) + MinInt

NewElement(ex, ey, w, h) ==
    [x |-> ex, y |-> ey, width |-> w, height |-> h, visible |-> TRUE,
     parent |-> Nil, children |-> <<>>,
     handlers |-> [t \in EventTypes |-> <<>>]]

\* The record of a call: what was called on which receiver with which
\* argument, what it returned and which calls it made while running.
Call(op, node, arg, res, log) ==
    [op |-> op, node |-> node, arg |-> arg, res |-> res, log |-> log]
NoCall == Call("none", Nil, <<>>, Nil, <<>>)
Void == "void"

-----------------------------------------------------------------------------
(* The parts of the state an Element method leaves alone *)

windowVars == <<win, rend>>
threadVars == <<thr, mu>>
componentVars == <<inp, btn, lbl, wid>>
otherThanElement == <<windowVars, threadVars, componentVars>>

\* ContainsPoint (gui.go:134-138)
ContainsPoint(e, px, py) ==
    /\ px >= elem[e].x
    /\ px < IntAdd(elem[e].x, elem[e].width)
    /\ py >= elem[e].y
    /\ py < IntAdd(elem[e].y, elem[e].height)

\* SetPosition (gui.go:87-91)
SetPosition(e, px, py) ==
    /\ elem' = [elem EXCEPT ![e].x = px, ![e].y = py]
    /\ call' = Call("SetPosition", e, <<px, py>>, Void, <<>>)
    /\ UNCHANGED otherThanElement

\* SetSize (gui.go:94-98)
SetSize(e, w, h) ==
    /\ elem' = [elem EXCEPT ![e].width = w, ![e].height = h]
    /\ call' = Call("SetSize", e, <<w, h>>, Void, <<>>)
    /\ UNCHANGED otherThanElement

\* SetVisible (gui.go:108-112)
SetVisible(e, v) ==
    /\ elem' = [elem EXCEPT ![e].visible = v]
    /\ call' = Call("SetVisible", e, <<v>>, Void, <<>>)
    /\ UNCHANGED otherThanElement

\* append(e.children, child)
AppendChild(kids, child) == Append(kids, child)

\* AddChild (gui.go:115-119)
AddChild(e, child) ==
    /\ elem' = [elem EXCEPT ![e].children = AppendChild(@, child)]
    /\ call' = Call("AddChild", e, <<child>>, Void, <<>>)
    /\ UNCHANGED otherThanElement

\* the loop of RemoveChild: the index of the first occurrence, 0 when absent
FirstIndex(kids, child) ==
    IF \E i \in 1..Len(kids) : kids[i] = child
    THEN CHOOSE i \in 1..Len(kids) :
            /\ kids[i] = child
            /\ \A j \in 1..(i - 1) : kids[j] # child
    ELSE 0

\* (a plausible slip: filtering out every occurrence instead of the first)
WithoutChild_AllOccurrences(kids, child) ==
    SelectSeq(kids, LAMBDA c : c # child)

\* append(e.children[:i], e.children[i+1:]...) at the first match, then break
WithoutChild(kids, child) ==
    LET i == FirstIndex(kids, child)
    IN  IF i = 0 THEN kids
        ELSE SubSeq(kids, 1, i - 1) \o SubSeq(kids, i + 1, Len(kids))

\* RemoveChild (gui.go:122-131)
RemoveChild(e, child) ==
    /\ elem' = [elem EXCEPT ![e].children = WithoutChild(@, child)]
    /\ call' = Call("RemoveChild", e, <<child>>, Void, <<>>)
    /\ UNCHANGED otherThanElement

\* AddEventHandler (gui.go:191-195)
AddEventHandler(e, eventType, handler) ==
    /\ elem' = [elem EXCEPT ![e].handlers[eventType] = Append(@, handler)]
    /\ call' = Call("AddEventHandler", e, <<eventType, handler.id>>, Void, <<>>)
    /\ UNCHANGED otherThanElement

\* a call of ContainsPoint from the host
ContainsPointCall(e, px, py) ==
    /\ call' = Call("ContainsPoint", e, <<px, py>>, ContainsPoint(e, px, py), <<>>)
    /\ UNCHANGED <<elem, otherThanElement>>

\* the totals the guards cap
RECURSIVE SumOver(_, _)
SumOver(f, S) ==
    IF S = {} THEN 0
    ELSE LET s == CHOOSE s \in S : TRUE IN f[s] + SumOver(f, S \ {s})

Edges == SumOver([n \in Nodes |-> Len(elem[n].children)], Nodes)

-----------------------------------------------------------------------------
(* Event dispatch (gui.go:160-188) *)

\* one line of a call log: a HandleEvent or Render invoked on a node at a
\* call depth, a handler (the idx-th of the chain) invoked by a node, or the
\* value a call returned
Entry(ev, node, depth, idx, ret) ==
    [ev |-> ev, node |-> node, depth |-> depth, idx |-> idx, ret |-> ret]

(* plausible slips of the dispatch code *)
BoundsGated_AllPositional(e, event) ==
    /\ event.type \in {EventTypeClick, EventTypeMouseMove}
    /\ ~ContainsPoint(e, event.X, event.Y)
BoundsGated_OrInvisible(e, event) ==
    \/ ~elem[e].visible
    \/ event.type = EventTypeClick /\ ~ContainsPoint(e, event.X, event.Y)
ChildOrder_Insertion(n) == [k \in 1..n |-> k]
StopsChain_Never(ret) == FALSE

\* if posEvent, ok := event.(*ClickEvent); ok { if !e.ContainsPoint(...) (gui.go:165-169)
BoundsGated(e, event) ==
    /\ event.type = EventTypeClick
    /\ ~ContainsPoint(e, event.X, event.Y)

\* for i := len(e.children) - 1; i >= 0; i-- : the indices in the order visited
ChildOrder(n) == [k \in 1..n |-> n - k + 1]

\* if handler.Handle(event) { return true }
StopsChain(ret) == ret

\* handlers, exists := e.handlers[event.Type()]
HandlerChain(e, event) == elem[e].handlers[event.type]

RECURSIVE HandleEvent(_, _, _)
RECURSIVE OfferChildren(_, _, _, _)
RECURSIVE RunHandlers(_, _, _, _)

\* the handler loop (gui.go:179-185), from the k-th handler of the chain on
RunHandlers(chain, k, e, d) ==
    IF k > Len(chain) THEN [res |-> FALSE, log |-> <<>>]
    ELSE LET line == Entry("Handle", e, d, k, chain[k].ret)
         IN  IF StopsChain(chain[k].ret)
             THEN [res |-> TRUE, log |-> <<line>>]
             ELSE LET rest == RunHandlers(chain, k + 1, e, d)
                  IN  [res |-> rest.res, log |-> <<line>> \o rest.log]

\* the children loop (gui.go:172-176), from the k-th child of the order on
OfferChildren(e, event, k, d) ==
    LET order == ChildOrder(Len(elem[e].children))
    IN  IF k > Len(order) THEN [res |-> FALSE, log |-> <<>>]
        ELSE LET r == HandleEvent(elem[e].children[order[k]], event, d + 1)
             IN  IF r.res THEN r
                 ELSE LET rest == OfferChildren(e, event, k + 1, d)
                      IN  [res |-> rest.res, log |-> r.log \o rest.log]

\* HandleEvent (gui.go:160-188): the result and the calls made, in order
HandleEvent(e, event, d) ==
    LET enter == Entry("HandleEvent", e, d, 0, Nil)
        leave(r) == Entry("return", e, d, 0, r)
    IN  IF BoundsGated(e, event)
        THEN [res |-> FALSE, log |-> <<enter, leave(FALSE)>>]
        ELSE LET kids == OfferChildren(e, event, 1, d)
             IN  IF kids.res
                 THEN [res |-> TRUE, log |-> <<enter>> \o kids.log \o <<leave(TRUE)>>]
                 ELSE LET own == RunHandlers(HandlerChain(e, event), 1, e, d)
                      IN  [res |-> own.res,
                           log |-> <<enter>> \o kids.log \o own.log \o <<leave(own.res)>>]

\* a call of HandleEvent from the host
HandleEventCall(e, event) ==
    LET r == HandleEvent(e, event, 0)
    IN  /\ call' = Call("HandleEvent", e, event, r.res, r.log)
        /\ UNCHANGED <<elem, otherThanElement>>

Handlers_Total ==
    SumOver([n \in Nodes |->
               SumOver([t \in EventTypes |-> Len(elem[n].handlers[t])], EventTypes)],
            Nodes)

\* The host keeps the ownership rule of the data model when it composes a
\* tree: it adds an element that has no parent yet and is not the receiver
\* or one of its ancestors.
Range(seq) == {seq[i] : i \in 1..Len(seq)}

RECURSIVE ReachFrom(_, _)
ReachFrom(frontier, seen) ==
    LET next == UNION {Range(elem[m].children) : m \in frontier} \ seen
    IN  IF next = {} THEN seen ELSE ReachFrom(next, seen \cup next)
Descendants(n) == ReachFrom({n}, {})

WellFormedAdd(e, child) ==
    /\ child # e
    /\ \A n \in Nodes : child \notin Range(elem[n].children)
    /\ e \notin Descendants(child)

-----------------------------------------------------------------------------
(* Rendering (gui.go:141-157, components/label.go:209-222) *)

\* The nodes that are Labels: leaf widgets that embed an Element and
\* override Render with their own drawing.
Labels == {"B", "C"}
LabelText(n) == "text"

\* the error a failed canvas call made for node n returns
Err(n) ==
    CASE n = "P" -> "draw P failed" [] n = "A" -> "draw A failed"
      [] n = "B" -> "draw B failed" [] n = "C" -> "draw C failed"
      [] n = "Clear" -> "clear failed" [] n = "Present" -> "present failed"

(* plausible slips of the render code *)
AbortsRender_Never(err) == FALSE

\* if err := child.Render(canvas); err != nil { return err }
AbortsRender(err) == err # Nil

\* if !e.visible { return nil }
Hidden(e) == ~elem[e].visible

RECURSIVE Render(_, _, _)
RECURSIVE RenderChildren(_, _, _, _)

\* Label.Render with a single line of text (label.go:209-243): one DrawText,
\* which fails when the canvas fails for this label
LabelRender(l, bad, d) ==
    LET enter == Entry("Render", l, d, 0, Nil)
        leave(r) == Entry("return", l, d, 0, r)
    IN  IF ~elem[l].visible \/ LabelText(l) = ""
        THEN [res |-> Nil, log |-> <<enter, leave(Nil)>>]
        ELSE LET err == IF l \in bad THEN Err(l) ELSE Nil
             IN  [res |-> err,
                  log |-> <<enter, Entry("DrawText", l, d, 0, err), leave(err)>>]

\* the children loop of Element.Render (gui.go:150-154), from the k-th child on
RenderChildren(e, bad, k, d) ==
    IF k > Len(elem[e].children) THEN [res |-> Nil, log |-> <<>>]
    ELSE LET r == Render(elem[e].children[k], bad, d + 1)
         IN  IF AbortsRender(r.res) THEN r
             ELSE LET rest == RenderChildren(e, bad, k + 1, d)
                  IN  [res |-> rest.res, log |-> r.log \o rest.log]

\* Element.Render (gui.go:141-157)
ElementRender(e, bad, d) ==
    LET enter == Entry("Render", e, d, 0, Nil)
        leave(r) == Entry("return", e, d, 0, r)
    IN  IF Hidden(e)
        THEN [res |-> Nil, log |-> <<enter, leave(Nil)>>]
        ELSE LET kids == RenderChildren(e, bad, 1, d)
             IN  [res |-> kids.res, log |-> <<enter>> \o kids.log \o <<leave(kids.res)>>]

\* child.Render(canvas): the method of the child's dynamic type
Render(n, bad, d) ==
    IF n \in Labels THEN LabelRender(n, bad, d) ELSE ElementRender(n, bad, d)

\* a call of Render from the host, on a canvas whose calls fail for the
\* labels in bad
RenderCall(e, bad) ==
    LET r == Render(e, bad, 0)
    IN  /\ call' = Call("Render", e, bad, r.res, r.log)
        /\ UNCHANGED <<elem, otherThanElement>>

-----------------------------------------------------------------------------
(* The Window (gui.go:197-277) over the StubRenderer (stub.go:17-116) *)

\* generateTestEvents (stub.go:104-116): the events one batch appends
TestEvents ==
    <<NewClickEvent(100, 50), NewClickEvent(200, 150), NewMouseMoveEvent(150, 100),
      NewPlainEvent(EventTypeKeyPress), NewPlainEvent(EventTypeTextInput)>>

\* StubRenderer.Show (stub.go:28-46): the renderer after the call and the
\* error returned; mkdirFails tells whether os.MkdirAll fails
RendererShow(r, mkdirFails) ==
    IF r.running THEN [rend |-> r, err |-> "window already shown"]
    ELSE IF mkdirFails THEN [rend |-> r, err |-> "failed to create output directory"]
    ELSE [rend |-> [r EXCEPT !.running = TRUE, !.events = @ \o TestEvents], err |-> Nil]

\* StubRenderer.Close (stub.go:49-57)
RendererClose(r) ==
    IF ~r.running THEN [rend |-> r, err |-> Nil]
    ELSE [rend |-> [r EXCEPT !.running = FALSE], err |-> Nil]

(* plausible slips of the lifecycle code *)
RunningAfterShow_OnSuccess(err) == err = Nil
AbortsUpdate_Never(err) == FALSE
DelegatesClose_WhenRunning(was) == was
Drained_Kept(events) == events

\* w.renderer.Close() (gui.go:243), whether the window was running or not
DelegatesClose(was) == TRUE

\* if err := w.Element.Render(w.canvas); err != nil { return err } (gui.go:266-268)
AbortsUpdate(err) == err # Nil

\* w.running = true (gui.go:233), before and whatever the renderer returns
RunningAfterShow(err) == TRUE

\* w.running = false (gui.go:242)
RunningAfterClose(was) == FALSE

\* Window.Show (gui.go:229-235)
Show(mkdirFails) ==
    LET r == RendererShow(rend, mkdirFails)
    IN  /\ win' = [win EXCEPT !.running = RunningAfterShow(r.err)]
        /\ rend' = r.rend
        /\ call' = Call("Show", Root, <<>>, r.err,
                        <<Entry("Renderer.Show", Root, 0, 0, r.err)>>)
        /\ UNCHANGED <<elem, threadVars, componentVars>>

\* Window.Close (gui.go:238-244); the history keeps whether the window was
\* running when Close was called
Close ==
    LET delegates == DelegatesClose(win.running)
        r == IF delegates THEN RendererClose(rend) ELSE [rend |-> rend, err |-> Nil]
    IN  /\ win' = [win EXCEPT !.running = RunningAfterClose(@)]
        /\ rend' = r.rend
        /\ call' = Call("Close", Root, <<win.running>>, r.err,
                        IF delegates THEN <<Entry("Renderer.Close", Root, 0, 0, r.err)>>
                        ELSE <<>>)
        /\ UNCHANGED <<elem, threadVars, componentVars>>

\* Window.IsRunning (gui.go:247-251)
IsRunning ==
    /\ call' = Call("IsRunning", Root, <<>>, win.running, <<>>)
    /\ UNCHANGED <<elem, win, rend, threadVars, componentVars>>

\* Window.Update (gui.go:254-272) on a canvas whose calls fail for the
\* labels and the operations in bad: the result and the canvas calls made
Update(bad) ==
    IF ~win.running THEN [res |-> Nil, log |-> <<>>]
    ELSE LET clear == Entry("Clear", Root, 0, 0, IF "Clear" \in bad THEN Err("Clear") ELSE Nil)
             tree == Render(Root, bad, 0)
             present == IF "Present" \in bad THEN Err("Present") ELSE Nil
         IN  IF AbortsUpdate(tree.res)
             THEN [res |-> tree.res, log |-> <<clear>> \o tree.log]
             ELSE [res |-> present,
                   log |-> <<clear>> \o tree.log \o <<Entry("Present", Root, 0, 0, present)>>]

\* a call of Update from the host
UpdateCall(bad) ==
    LET r == Update(bad)
    IN  /\ call' = Call("Update", Root, bad, r.res, r.log)
        /\ UNCHANGED <<elem, win, rend, threadVars, componentVars>>

\* r.events = r.events[:0] (stub.go:68)
Drained(events) == <<>>

\* StubRenderer.PollEvents (stub.go:60-77): the renderer after the call and
\* the batch returned; stale tells whether the last frame is older than 2 s
RendererPollEvents(r, stale) ==
    IF ~r.running THEN [rend |-> r, events |-> <<>>]
    ELSE [rend |-> [r EXCEPT !.events = Drained(@) \o (IF stale THEN TestEvents ELSE <<>>)],
          events |-> r.events]

\* Window.PollEvents (gui.go:275-277)
PollEvents(stale) ==
    LET r == RendererPollEvents(rend, stale)
    IN  /\ rend' = r.rend
        /\ call' = Call("PollEvents", Root, <<>>, r.events,
                        <<Entry("Renderer.PollEvents", Root, 0, 0, r.events)>>)
        /\ UNCHANGED <<elem, win, threadVars, componentVars>>

\* newPlatformRenderer (part_001:28-32): the placeholder of the platform
\* renderer, which constructs nothing
newPlatformRenderer(width, height) ==
    [renderer |-> Nil, err |-> "platform renderer not implemented"]

\* NewRenderer (part_001:23-25)
NewRenderer(width, height) == newPlatformRenderer(width, height)

\* Renderer.CreateCanvas, as the StubRenderer implements it (stub.go:163-177)
CreateCanvas(renderer) ==
    IF renderer = Nil THEN [canvas |-> Nil, err |-> "failed to create base canvas"]
    ELSE [canvas |-> "canvas", err |-> Nil]

\* NewWindow (gui.go:208-226): the window constructed, or the error of the
\* renderer or of the canvas
NewWindow(width, height) ==
    LET r == NewRenderer(width, height)
    IN  IF r.err # Nil THEN [window |-> Nil, err |-> r.err]
        ELSE LET c == CreateCanvas(r.renderer)
             IN  IF c.err # Nil THEN [window |-> Nil, err |-> c.err]
                 ELSE [window |-> [root |-> NewElement(0, 0, width, height),
                                   running |-> FALSE],
                       err |-> Nil]

\* a call of NewWindow from the host: a window that exists is not touched
NewWindowCall(width, height) ==
    /\ call' = Call("NewWindow", Nil, <<width, height>>, NewWindow(width, height), <<>>)
    /\ UNCHANGED <<elem, win, rend, threadVars, componentVars>>

\* NewWindow (gui.go:208-226) with a renderer and a canvas at hand: the
\* root element spans the window, the window is not running
InitWindow(width, height) ==
    /\ elem = [n \in Nodes |-> IF n = Root THEN NewElement(0, 0, width, height)
                                ELSE NewElement(0, 0, 2, 2)]
    /\ win = [running |-> FALSE]
    /\ rend = [running |-> FALSE, events |-> <<>>]
    /\ call = NoCall

-----------------------------------------------------------------------------
(* The Input component (components/input.go) *)

\* The element the Input embeds
InputNode == "A"

\* Code points: two letters, the combining acute accent U+0301, the
\* precomposed U+00E9, and two control characters
CodePoints == {"a", "e", "acute", "eacute", "LF", "TAB"}

\* unicode.IsControl
IsControl(r) == r \in {"LF", "TAB"}

\* norm.NFC.String: canonical composition; over these code points the only
\* composable pair is <e, U+0301>, which becomes U+00E9
RECURSIVE NFC(_)
NFC(t) ==
    IF Len(t) < 2 THEN t
    ELSE IF t[1] = "e" /\ t[2] = "acute" THEN <<"eacute">> \o NFC(Tail(Tail(t)))
    ELSE <<t[1]>> \o NFC(Tail(t))

\* runes[a:b] of Go, on a slice of code points
Slice(runes, a, b) == SubSeq(runes, a + 1, b)

\* keys (part_000:88-137): the five the Input handles and one it does not
Keys == {"KeyBackspace", "KeyDelete", "KeyArrowLeft", "KeyArrowRight", "KeyEnter", "KeyA"}
NewKeyPressEvent(key) == [type |-> EventTypeKeyPress, Key |-> key]
NewTextInputEvent(text) == [type |-> EventTypeTextInput, Text |-> text]

\* InputValidatorFunc values the host installs: none, and one that rejects
\* every text holding the letter a
Validators == {Nil, "NoA"}
Validate(v, text) == \A k \in 1..Len(text) : text[k] # "a"

\* the advance of every glyph of basicfont.Face7x13, and the left padding
DefaultAdvance == 7
Padding == 5

\* a font.Face, as getCharWidth sees it: the width it gives each code point,
\* which is the default width where the face has no glyph (input.go:428-439)
Face(advance) == [r \in CodePoints |-> advance]
Proportional ==
    [r \in CodePoints |->
        CASE r = "a" -> 1 [] r = "e" -> 2 [] r = "eacute" -> 3 [] r = "acute" -> 0
          [] OTHER -> DefaultAdvance]
getCharWidth(r, font) == font[r]

(* a plausible slip of NewInput: the selection bounds left at Go's zero value *)
NewInput_ZeroSelection ==
    [text |-> <<>>, cursorPos |-> 0, selectionStart |-> 0, selectionEnd |-> 0,
     focused |-> FALSE, maxLength |-> -1, validator |-> Nil, onChange |-> Nil,
     onSubmit |-> Nil, onFocus |-> Nil, onBlur |-> Nil,
     font |-> Face(DefaultAdvance)]

\* NewInput (input.go:41-66); font holds the widths the font gives, and
\* each callback field whether the host has set the callback
NewInput ==
    [text |-> <<>>, cursorPos |-> 0, selectionStart |-> -1, selectionEnd |-> -1,
     focused |-> FALSE, maxLength |-> -1, validator |-> Nil, onChange |-> Nil,
     onSubmit |-> Nil, onFocus |-> Nil, onBlur |-> Nil,
     font |-> Face(DefaultAdvance)]

\* the outcome of an Input method: the fields after it, the callbacks it
\* fired, and what it returned
Outcome(i, fired, ret) == [inp |-> i, fired |-> fired, ret |-> ret]

\* if i.onChange != nil { i.onChange(i.text) }
FireOnChange(i) ==
    IF i.onChange # Nil THEN <<Entry("onChange", InputNode, 0, 0, i.text)>> ELSE <<>>

\* if i.onSubmit != nil { i.onSubmit(i.text) } (input.go:383-385)
FireOnSubmit(i) ==
    IF i.onSubmit # Nil THEN <<Entry("onSubmit", InputNode, 0, 0, i.text)>> ELSE <<>>

\* if i.onFocus != nil { i.onFocus() } (input.go:179-181)
FireOnFocus(i) ==
    IF i.onFocus # Nil THEN <<Entry("onFocus", InputNode, 0, 0, Nil)>> ELSE <<>>

\* if i.onBlur != nil { i.onBlur() } (input.go:188-190)
FireOnBlur(i) ==
    IF i.onBlur # Nil THEN <<Entry("onBlur", InputNode, 0, 0, Nil)>> ELSE <<>>

(* plausible slips of the Input code *)
RemoveAt_Through(runes, k) == SubSeq(runes, 1, k)
IgnoresKeys_Never(i) == FALSE
Strips_TabToo(r) == IsControl(r)
FocusesOnClick_Always(i) == TRUE
OverLimit_Never(maxLength, length) == FALSE
Midpoint_Whole(charWidth) == charWidth

\* charWidth/2 (input.go:317)
Midpoint(charWidth) == charWidth \div 2

\* i.maxLength > 0 && length > i.maxLength (input.go:73, 135, 263)
OverLimit(maxLength, length) == maxLength > 0 /\ length > maxLength

\* append(runes[:k], runes[k+1:]...) (input.go:344, 359)
RemoveAt(runes, k) == Slice(runes, 0, k) \o Slice(runes, k + 1, Len(runes))

\* if !i.focused { return false } (input.go:332-334)
IgnoresKeys(i) == ~i.focused

\* unicode.IsControl(r) && r != '\t' (input.go:402)
Strips(r) == IsControl(r) /\ r # "TAB"

\* if !i.focused { i.Focus() } (input.go:300-302)
FocusesOnClick(i) == ~i.focused

FiresOnSetText_IfChanged(old, new) == old # new
Rejects_Never(v, text) == FALSE
ClampCursor_Kept(pos, length) == pos
TakeLeading_Trailing(runes, n) == SubSeq(runes, Len(runes) - n + 1, Len(runes))
SelectionRange_AsStored(s, e) == <<s, e>>

\* SetText fires onChange whatever the text was before (input.go:88-90)
FiresOnSetText(old, new) == TRUE

\* if i.validator != nil && !i.validator(text) (input.go:80, 277)
Rejects(v, text) == v # Nil /\ ~Validate(v, text)

\* if i.cursorPos > length { i.cursorPos = length } (input.go:138-140)
ClampCursor(pos, length) == IF pos > length THEN length ELSE pos

\* runes[:n]
TakeLeading(runes, n) == Slice(runes, 0, n)

\* if start > end { start, end = end, start } (input.go:215-219, 235-239)
SelectionRange(s, e) == IF s > e THEN <<e, s>> ELSE <<s, e>>

\* clearSelection (input.go:199-202)
clearSelection(i) == [i EXCEPT !.selectionStart = -1, !.selectionEnd = -1]

\* hasSelection (input.go:205-207)
hasSelection(i) ==
    i.selectionStart >= 0 /\ i.selectionEnd >= 0 /\ i.selectionStart # i.selectionEnd

\* getSelectedText (input.go:210-227)
getSelectedText(i) ==
    IF ~hasSelection(i) THEN <<>>
    ELSE LET r == SelectionRange(i.selectionStart, i.selectionEnd)
         IN  IF r[1] < 0 \/ r[1] >= Len(i.text) \/ r[2] < 0 \/ r[2] > Len(i.text)
             THEN <<>>
             ELSE Slice(i.text, r[1], r[2])

\* deleteSelection (input.go:230-246)
deleteSelection(i) ==
    IF ~hasSelection(i) THEN i
    ELSE LET r == SelectionRange(i.selectionStart, i.selectionEnd)
         IN  clearSelection([i EXCEPT
                 !.text = Slice(i.text, 0, r[1]) \o Slice(i.text, r[2], Len(i.text)),
                 !.cursorPos = r[1]])

\* SetText (input.go:69-93)
SetText(i, text) ==
    LET normalizedText == NFC(text)
        candidate == IF OverLimit(i.maxLength, Len(normalizedText))
                     THEN Slice(normalizedText, 0, i.maxLength)
                     ELSE normalizedText
    IN  IF Rejects(i.validator, candidate) THEN Outcome(i, <<>>, Void)
        ELSE LET j == clearSelection([i EXCEPT !.text = candidate,
                                               !.cursorPos = Len(candidate)])
             IN  Outcome(j, IF FiresOnSetText(i.text, j.text) THEN FireOnChange(j) ELSE <<>>,
                         Void)

\* SetMaxLength (input.go:131-144)
SetMaxLength(i, length) ==
    LET j == [i EXCEPT !.maxLength = length]
    IN  IF OverLimit(length, Len(j.text))
        THEN [j EXCEPT !.text = Slice(j.text, 0, length),
                       !.cursorPos = ClampCursor(j.cursorPos, length)]
        ELSE j

\* Focus (input.go:177-182) and Blur (input.go:185-191): the fields after;
\* FireOnFocus and FireOnBlur are the callbacks they make
Focus(i) == [i EXCEPT !.focused = TRUE]
Blur(i) == clearSelection([i EXCEPT !.focused = FALSE])

\* insertText (input.go:249-287)
insertText(i, text) ==
    LET normalizedText == NFC(text)
        d == IF hasSelection(i) THEN deleteSelection(i) ELSE i
        runes == d.text
        totalLength == Len(runes) + Len(normalizedText)
        over == OverLimit(d.maxLength, totalLength)
        maxNewRunes == d.maxLength - Len(runes)
    IN  IF over /\ maxNewRunes <= 0 THEN Outcome(d, <<>>, Void)
        ELSE LET newRunes == IF over THEN TakeLeading(normalizedText, maxNewRunes)
                             ELSE normalizedText
                 newText == Slice(runes, 0, d.cursorPos) \o newRunes
                            \o Slice(runes, d.cursorPos, Len(runes))
             IN  IF Rejects(d.validator, newText) THEN Outcome(d, <<>>, Void)
                 ELSE LET j == [d EXCEPT !.text = newText,
                                         !.cursorPos = @ + Len(newRunes)]
                      IN  Outcome(j, FireOnChange(j), Void)

\* the loop of handleClick (input.go:315-323) from position pos on: the
\* cursor it leaves, cur being the cursor so far
RECURSIVE ClickCursor(_, _, _, _, _)
ClickCursor(i, relativeX, pos, width, cur) ==
    IF pos >= Len(i.text) THEN cur
    ELSE LET charWidth == getCharWidth(i.text[pos + 1], i.font)
         IN  IF width + Midpoint(charWidth) > relativeX THEN pos
             ELSE ClickCursor(i, relativeX, pos + 1, width + charWidth, pos + 1)

\* handleClick (input.go:290-328)
handleClick(n, i, event) ==
    IF ~ContainsPoint(n, event.X, event.Y)
    THEN IF i.focused THEN Outcome(Blur(i), FireOnBlur(i), FALSE)
         ELSE Outcome(i, <<>>, FALSE)
    ELSE LET focuses == FocusesOnClick(i)
             f == IF focuses THEN Focus(i) ELSE i
             relativeX == IntAdd(IntAdd(event.X, -elem[n].x), -Padding)
             cursor == IF relativeX <= 0 THEN 0
                       ELSE ClickCursor(f, relativeX, 0, 0, f.cursorPos)
         IN  Outcome(clearSelection([f EXCEPT !.cursorPos = cursor]),
                     IF focuses THEN FireOnFocus(i) ELSE <<>>, TRUE)

\* handleKeyPress (input.go:331-390)
handleKeyPress(i, event) ==
    IF IgnoresKeys(i) THEN Outcome(i, <<>>, FALSE)
    ELSE CASE event.Key = "KeyBackspace" ->
                LET j == IF hasSelection(i) THEN deleteSelection(i)
                         ELSE IF i.cursorPos > 0
                         THEN [i EXCEPT !.text = RemoveAt(i.text, i.cursorPos - 1),
                                        !.cursorPos = @ - 1]
                         ELSE i
                IN  Outcome(j, FireOnChange(j), TRUE)
           [] event.Key = "KeyDelete" ->
                LET j == IF hasSelection(i) THEN deleteSelection(i)
                         ELSE IF i.cursorPos < Len(i.text)
                         THEN [i EXCEPT !.text = RemoveAt(i.text, i.cursorPos)]
                         ELSE i
                IN  Outcome(j, FireOnChange(j), TRUE)
           [] event.Key = "KeyArrowLeft" ->
                Outcome(clearSelection([i EXCEPT !.cursorPos = IF @ > 0 THEN @ - 1 ELSE @]),
                        <<>>, TRUE)
           [] event.Key = "KeyArrowRight" ->
                Outcome(clearSelection([i EXCEPT
                            !.cursorPos = IF @ < Len(i.text) THEN @ + 1 ELSE @]),
                        <<>>, TRUE)
           [] event.Key = "KeyEnter" -> Outcome(i, FireOnSubmit(i), TRUE)
           [] OTHER -> Outcome(i, <<>>, FALSE)

\* handleTextInput (input.go:393-413)
handleTextInput(i, event) ==
    IF ~i.focused THEN Outcome(i, <<>>, FALSE)
    ELSE LET filtered == SelectSeq(event.Text, LAMBDA r : ~Strips(r))
         IN  IF filtered # <<>>
             THEN LET r == insertText(i, filtered) IN Outcome(r.inp, r.fired, TRUE)
             ELSE Outcome(i, <<>>, TRUE)

\* handleFocus (input.go:416-419) and handleBlur (input.go:422-425)
handleFocus(i, event) == Outcome(Focus(i), FireOnFocus(i), TRUE)
handleBlur(i, event) == Outcome(Blur(i), FireOnBlur(i), TRUE)

\* Element.HandleEvent (gui.go:160-188) on the element of an Input that has
\* no children and no handlers but the five NewInput registers (input.go:59-63)
InputHandleEvent(n, i, event) ==
    IF BoundsGated(n, event) THEN Outcome(i, <<>>, FALSE)
    ELSE CASE event.type = EventTypeClick -> handleClick(n, i, event)
           [] event.type = EventTypeKeyPress -> handleKeyPress(i, event)
           [] event.type = EventTypeTextInput -> handleTextInput(i, event)
           [] event.type = EventTypeFocus -> handleFocus(i, event)
           [] event.type = EventTypeBlur -> handleBlur(i, event)
           [] OTHER -> Outcome(i, <<>>, FALSE)

\* a call on the Input from the host: the fields after it, and in the
\* history the argument, the result and the callbacks fired
InputCall(op, arg, r) ==
    /\ inp' = r.inp
    /\ call' = Call(op, InputNode, arg, r.ret, r.fired)
    /\ UNCHANGED <<elem, windowVars, threadVars, btn, lbl, wid>>

InputSetText(text) == InputCall("SetText", text, SetText(inp, text))
InputSetMaxLength(length) ==
    InputCall("SetMaxLength", length, Outcome(SetMaxLength(inp, length), <<>>, Void))
InputSetValidator(v) ==
    InputCall("SetValidator", v, Outcome([inp EXCEPT !.validator = v], <<>>, Void))
InputSetOnChange(cb) ==
    InputCall("SetOnChange", cb, Outcome([inp EXCEPT !.onChange = cb], <<>>, Void))
InputSetFont(font) ==
    InputCall("SetFont", font, Outcome([inp EXCEPT !.font = font], <<>>, Void))
InputFocus == InputCall("Focus", <<>>, Outcome(Focus(inp), FireOnFocus(inp), Void))
InputBlur == InputCall("Blur", <<>>, Outcome(Blur(inp), FireOnBlur(inp), Void))

\* an event delivered to the Input's HandleEvent; the history keeps the
\* fields the call found
InputDeliver(event) ==
    InputCall("HandleEvent", [event |-> event, before |-> inp],
              InputHandleEvent(InputNode, inp, event))
InputDispatch(event) == InputCall("HandleEvent", event, InputHandleEvent(InputNode, inp, event))

\* a call of insertText, which only the Input itself makes; the history keeps
\* the fields the call found
InputInsertText(text) ==
    InputCall("insertText", [text |-> text, before |-> inp], insertText(inp, text))

-----------------------------------------------------------------------------
(* The Button component (components/button.go): the enabled flag, the       *)
(* visual state and the three callbacks of a button whose Element is the    *)
(* node ButtonNode.  A callback is opaque host code; the model knows        *)
(* whether the host has set it and whether it calls SetEnabled on the       *)
(* button it belongs to.                                                    *)

ButtonNode == "C"

\* ButtonState (button.go:15-20)
ButtonStateNormal == "Normal"
ButtonStateHover == "Hover"
ButtonStatePressed == "Pressed"
ButtonStateDisabled == "Disabled"

\* what a callback the host sets does: nothing to the button ("recorder"),
\* or a call of SetEnabled(true) or SetEnabled(false) on it
CallbackKinds == {Nil, "recorder", "enable", "disable"}

\* NewButton (button.go:52-79)
NewButton ==
    [state |-> ButtonStateNormal, enabled |-> TRUE,
     onClick |-> Nil, onHover |-> Nil, onUnhover |-> Nil]

\* the outcome of a Button method: the fields after it, the callbacks it
\* fired, and what it returned
ButtonOutcome(b, fired, ret) == [btn |-> b, fired |-> fired, ret |-> ret]

(* plausible slips of the Button code *)
Reenabled_Normal(state) == ButtonStateNormal
IgnoresPointer_Never(b) == FALSE
StateAfterClick_Pressed == ButtonStatePressed
EntersHover_Inside(isHover, wasHover) == isHover

\* else if b.state == ButtonStateDisabled { b.state = ButtonStateNormal }
\* (button.go:109-111)
Reenabled(state) == IF state = ButtonStateDisabled THEN ButtonStateNormal ELSE state

\* if !b.enabled { return false } (button.go:170-172, 197-199)
IgnoresPointer(b) == ~b.enabled

\* b.state = ButtonStateNormal after the callback (button.go:190)
StateAfterClick == ButtonStateNormal

\* if isHover && !wasHover (button.go:207)
EntersHover(isHover, wasHover) == isHover /\ ~wasHover

\* SetEnabled (button.go:105-113)
SetEnabled(b, enabled) ==
    [b EXCEPT !.enabled = enabled,
              !.state = IF ~enabled THEN ButtonStateDisabled ELSE Reenabled(@)]

\* if b.onClick != nil { b.onClick() } and its like (button.go:182-184,
\* 209-211, 215-217): the log has the callback with the state it observed
\* and, when it calls SetEnabled, that call with the state it left
Invoke(b, which) ==
    LET heard == Entry(which, ButtonNode, 0, 0, b.state)
    IN  CASE b[which] = Nil -> [btn |-> b, fired |-> <<>>]
          [] b[which] = "recorder" -> [btn |-> b, fired |-> <<heard>>]
          [] b[which] = "enable" ->
                LET c == SetEnabled(b, TRUE)
                IN  [btn |-> c,
                     fired |-> <<heard, Entry("SetEnabled", ButtonNode, 1, 1, c.state)>>]
          [] b[which] = "disable" ->
                LET c == SetEnabled(b, FALSE)
                IN  [btn |-> c,
                     fired |-> <<heard, Entry("SetEnabled", ButtonNode, 1, 0, c.state)>>]

\* Button.handleClick (button.go:169-193)
ButtonHandleClick(n, b, event) ==
    IF IgnoresPointer(b) THEN ButtonOutcome(b, <<>>, FALSE)
    ELSE IF ~ContainsPoint(n, event.X, event.Y)
    THEN ButtonOutcome(b, <<>>, FALSE)
    ELSE LET r == Invoke([b EXCEPT !.state = ButtonStatePressed], "onClick")
         IN  ButtonOutcome([r.btn EXCEPT !.state = StateAfterClick], r.fired, TRUE)

\* Button.handleMouseMove (button.go:196-220)
ButtonHandleMouseMove(n, b, event) ==
    IF IgnoresPointer(b) THEN ButtonOutcome(b, <<>>, FALSE)
    ELSE LET wasHover == b.state = ButtonStateHover
             isHover == ContainsPoint(n, event.X, event.Y)
         IN  IF EntersHover(isHover, wasHover)
             THEN LET r == Invoke([b EXCEPT !.state = ButtonStateHover], "onHover")
                  IN  ButtonOutcome(r.btn, r.fired, TRUE)
             ELSE IF ~isHover /\ wasHover
             THEN LET r == Invoke([b EXCEPT !.state = ButtonStateNormal], "onUnhover")
                  IN  ButtonOutcome(r.btn, r.fired, TRUE)
             ELSE ButtonOutcome(b, <<>>, FALSE)

\* Element.HandleEvent (gui.go:160-188) on a Button, which has no children
\* and the two handlers NewButton registers (button.go:75-76)
ButtonHandleEvent(n, b, event) ==
    IF BoundsGated(n, event) THEN ButtonOutcome(b, <<>>, FALSE)
    ELSE CASE event.type = EventTypeClick -> ButtonHandleClick(n, b, event)
           [] event.type = EventTypeMouseMove -> ButtonHandleMouseMove(n, b, event)
           [] OTHER -> ButtonOutcome(b, <<>>, FALSE)

\* the hover callback the host heard last, if any
HoverHeard ==
    IF call.op = "none" \/ call.node # ButtonNode THEN Nil
    ELSE IF \E k \in 1..Len(call.log) : call.log[k].ev \in {"onHover", "onUnhover"}
    THEN (CHOOSE e \in {call.log[k] : k \in 1..Len(call.log)} :
              e.ev \in {"onHover", "onUnhover"}).ev
    ELSE call.arg.heard

\* a call on the Button from the host: the fields after it, and in the
\* history the argument, the fields the call found, the hover callback heard
\* last before it, the result and the callbacks fired
ButtonCall(op, arg, r) ==
    /\ btn' = r.btn
    /\ call' = Call(op, ButtonNode,
                    [arg |-> arg, before |-> btn, heard |-> HoverHeard], r.ret, r.fired)
    /\ UNCHANGED <<elem, windowVars, threadVars, inp, lbl, wid>>

ButtonSetEnabled(enabled) ==
    ButtonCall("SetEnabled", enabled, ButtonOutcome(SetEnabled(btn, enabled), <<>>, Void))
ButtonSetOnClick(callback) ==
    ButtonCall("SetOnClick", callback,
               ButtonOutcome([btn EXCEPT !.onClick = callback], <<>>, Void))
ButtonSetOnHover(callback) ==
    ButtonCall("SetOnHover", callback,
               ButtonOutcome([btn EXCEPT !.onHover = callback], <<>>, Void))
ButtonSetOnUnhover(callback) ==
    ButtonCall("SetOnUnhover", callback,
               ButtonOutcome([btn EXCEPT !.onUnhover = callback], <<>>, Void))
ButtonDeliver(event) == ButtonCall("HandleEvent", event, ButtonHandleEvent(ButtonNode, btn, event))

-----------------------------------------------------------------------------
(* The Label component (components/label.go): text as a sequence of         *)
(* glyphs, the font by name, and the two layout flags of a label whose      *)
(* Element is the node LabelNode.                                           *)

LabelNode == "B"

\* glyphs: a narrow letter, a wide letter, the space and the line feed
Glyphs == {"a", "W", " ", "LF"}

\* unicode.IsSpace, by which strings.Fields splits
IsSpace(r) == r \in {" ", "LF"}

\* fonts: none, a fixed-width face, and a proportional face without a glyph
\* for the line feed
LabelFonts == {Nil, "fixed", "proportional"}

\* font.GlyphAdvance(r): the advance, rounded up, and whether the face has
\* the glyph
GlyphAdvance(font, r) ==
    IF font = "fixed" THEN [advance |-> 1, ok |-> TRUE]
    ELSE IF r = "LF" THEN [advance |-> 0, ok |-> FALSE]
    ELSE IF r = "W" THEN [advance |-> 3, ok |-> TRUE]
    ELSE [advance |-> 1, ok |-> TRUE]

\* TextAlignment (label.go:13-19) and the colours a caller sets
AlignLeft == "AlignLeft"
AlignCenter == "AlignCenter"
AlignRight == "AlignRight"
TextAlignments == {AlignLeft, AlignCenter, AlignRight}
Colors == {"black", "red"}

\* NewLabel (label.go:34-53), with the empty text
NewLabel ==
    [text |-> <<>>, font |-> "fixed", color |-> "black", alignment |-> AlignLeft,
     wordWrap |-> FALSE, autoSize |-> TRUE]

(* plausible slips of the Label code *)
Fits_Always(width, maxWidth) == TRUE

\* measureTextWidth(testLine, l.font) <= maxWidth (label.go:169)
Fits(width, maxWidth) == width <= maxWidth

\* measureTextWidth (label.go:192-206)
RECURSIVE measureTextWidth(_, _)
measureTextWidth(text, font) ==
    IF font = Nil \/ text = <<>> THEN 0
    ELSE LET g == GlyphAdvance(font, Head(text))
         IN  (IF g.ok THEN g.advance ELSE 0) + measureTextWidth(Tail(text), font)

\* strings.Fields: the maximal runs of glyphs that are not space, in order
RECURSIVE Fields(_)
Fields(text) ==
    IF text = <<>> THEN <<>>
    ELSE IF IsSpace(Head(text)) THEN Fields(Tail(text))
    ELSE LET n == CHOOSE k \in 1..Len(text) :
                      /\ \A j \in 1..k : ~IsSpace(text[j])
                      /\ k = Len(text) \/ IsSpace(text[k + 1])
         IN  <<SubSeq(text, 1, n)>> \o Fields(SubSeq(text, n + 1, Len(text)))

\* the loop of wrapText (label.go:163-182) over the words left, and the
\* flush after it (label.go:184-186)
RECURSIVE WrapWords(_, _, _, _, _)
WrapWords(font, maxWidth, words, lines, currentLine) ==
    IF words = <<>>
    THEN IF currentLine # <<>> THEN Append(lines, currentLine) ELSE lines
    ELSE LET word == Head(words)
             testLine == (IF currentLine # <<>> THEN currentLine \o <<" ">> ELSE <<>>)
                         \o word
         IN  IF Fits(measureTextWidth(testLine, font), maxWidth)
             THEN WrapWords(font, maxWidth, Tail(words), lines, testLine)
             ELSE WrapWords(font, maxWidth, Tail(words),
                            IF currentLine # <<>> THEN Append(lines, currentLine)
                            ELSE lines,
                            word)

\* wrapText (label.go:150-189)
wrapText(l, text, maxWidth) ==
    IF maxWidth <= 0 THEN <<text>>
    ELSE IF Fields(text) = <<>> THEN << <<>> >>
    ELSE WrapWords(l.font, maxWidth, Fields(text), <<>>, <<>>)

\* wrapText called on the label's own text, as updateSize and
\* renderMultiLine call it (label.go:135, 252)
LabelWrapText(maxWidth) ==
    /\ call' = Call("wrapText", LabelNode, [text |-> lbl.text, maxWidth |-> maxWidth],
                    wrapText(lbl, lbl.text, maxWidth), <<>>)
    /\ UNCHANGED <<elem, otherThanElement>>

\* (metrics.Ascent + metrics.Descent).Ceil() (label.go:119-120), 13 for
\* basicfont.Face7x13, scaled as the advances are
LineHeight(font) == 2

\* the width updateSize wraps at when the label has none (label.go:131-133)
DefaultWrapWidth == 200

\* the widest of the lines (label.go:137-144)
MaxLineWidth(lines, font) ==
    LET widths == {0} \cup {measureTextWidth(lines[k], font) : k \in 1..Len(lines)}
    IN  CHOOSE m \in widths : \A w \in widths : w <= m

\* updateSize (label.go:113-147): the size it passes to SetSize for the
\* label l whose Element is width wide
updateSize(l, width) ==
    IF l.font = Nil \/ l.text = <<>> THEN <<0, 0>>
    ELSE IF ~l.wordWrap THEN <<measureTextWidth(l.text, l.font), LineHeight(l.font)>>
    ELSE LET lines == wrapText(l, l.text, IF width <= 0 THEN DefaultWrapWidth ELSE width)
         IN  <<MaxLineWidth(lines, l.font), Len(lines) * LineHeight(l.font)>>

\* the size of an Element (GetBounds, gui.go:80-84)
SizeOf(e) == <<elem[e].width, elem[e].height>>

\* A call of a Label method: l is the label after the method's assignments;
\* recompute tells whether the method goes on to call updateSize, which
\* calls SetSize on the Label's Element.  The call keeps the label and its
\* size as they were before.
LabelCall(op, arg, l, recompute) ==
    LET size == updateSize(l, elem[LabelNode].width)
    IN  /\ lbl' = l
        /\ elem' = IF recompute
                   THEN [elem EXCEPT ![LabelNode].width = size[1],
                                     ![LabelNode].height = size[2]]
                   ELSE elem
        /\ call' = Call(op, LabelNode,
                        [arg |-> arg, before |-> lbl, size |-> SizeOf(LabelNode)], Void,
                        IF recompute THEN <<Entry("SetSize", LabelNode, 0, 0, size)>>
                        ELSE <<>>)
        /\ UNCHANGED <<windowVars, threadVars, inp, btn, wid>>

\* Label.SetText (label.go:56-65)
LabelSetText(text) ==
    LabelCall("SetText", text, [lbl EXCEPT !.text = NFC(text)], lbl.autoSize)

\* Label.SetFont (label.go:73-81)
LabelSetFont(font) == LabelCall("SetFont", font, [lbl EXCEPT !.font = font], lbl.autoSize)

\* Label.SetColor (label.go:84-87)
LabelSetColor(color) == LabelCall("SetColor", color, [lbl EXCEPT !.color = color], FALSE)

\* Label.SetAlignment (label.go:90-93)
LabelSetAlignment(alignment) ==
    LabelCall("SetAlignment", alignment, [lbl EXCEPT !.alignment = alignment], FALSE)

\* Label.SetWordWrap (label.go:96-99)
LabelSetWordWrap(enable) ==
    LabelCall("SetWordWrap", enable, [lbl EXCEPT !.wordWrap = enable], FALSE)

\* Label.SetAutoSize (label.go:102-110)
LabelSetAutoSize(enable) ==
    LabelCall("SetAutoSize", enable, [lbl EXCEPT !.autoSize = enable], enable)

-----------------------------------------------------------------------------
(* Widgets as the children of an element: Element.HandleEvent of the parent *)
(* offers the event to each child's HandleEvent, which runs the handler the *)
(* widget's constructor registered (button.go:75-76, input.go:59-63).       *)

\* a Button has a state, an Input has none
IsButton(w) == "state" \in DOMAIN w

\* the outcome of a Button's or an Input's HandleEvent, as a widget's
OfButton(r) == [w |-> r.btn, ret |-> r.ret]
OfInput(r) == [w |-> r.inp, ret |-> r.ret]

\* HandleEvent of the widget w at node n: the widget afterwards and the result
WidgetHandleEvent(n, w, event) ==
    IF IsButton(w) THEN OfButton(ButtonHandleEvent(n, w, event))
    ELSE OfInput(InputHandleEvent(n, w, event))

RECURSIVE OfferWidgets(_, _, _, _)
RECURSIVE Offered(_, _, _, _, _)

\* the children loop (gui.go:172-176) over children that are widgets, from
\* the k-th of the order on: the widgets afterwards, the result, and one
\* log entry for each child offered the event
OfferWidgets(e, ws, event, k) ==
    IF k > Len(elem[e].children) THEN [wid |-> ws, res |-> FALSE, log |-> <<>>]
    ELSE Offered(e, ws, event, k,
                 WidgetHandleEvent(elem[e].children[ChildOrder(Len(elem[e].children))[k]],
                                   ws[elem[e].children[ChildOrder(Len(elem[e].children))[k]]],
                                   event))

\* if child.HandleEvent(event) { return true } (gui.go:173-175), r being what
\* the k-th child of the order returned
Offered(e, ws, event, k, r) ==
    LET i == ChildOrder(Len(elem[e].children))[k]
        child == elem[e].children[i]
        after == [ws EXCEPT ![child] = r.w]
        line == Entry("HandleEvent", child, 1, i, r.ret)
    IN  IF r.ret THEN [wid |-> after, res |-> TRUE, log |-> <<line>>]
        ELSE [OfferWidgets(e, after, event, k + 1) EXCEPT !.log = <<line>> \o @]

\* the handler loop (gui.go:179-185) of the parent, reached when no child
\* consumed the event
OwnHandlers(e, event, kids) ==
    IF kids.res THEN [res |-> TRUE, log |-> <<>>]
    ELSE RunHandlers(HandlerChain(e, event), 1, e, 0)

\* the parent's HandleEvent returns own, its children having returned kids
Delivered(e, event, kids, own) ==
    /\ wid' = kids.wid
    /\ call' = Call("HandleEvent", e, [event |-> event, before |-> wid], own.res,
                    kids.log \o own.log)
    /\ UNCHANGED <<elem, windowVars, threadVars, inp, btn, lbl>>

\* HandleEvent (gui.go:160-188) called by the host on the parent e of widgets
WidgetsDeliver(e, event) ==
    IF BoundsGated(e, event)
    THEN Delivered(e, event, [wid |-> wid, res |-> FALSE, log |-> <<>>],
                   [res |-> FALSE, log |-> <<>>])
    ELSE Delivered(e, event, OfferWidgets(e, wid, event, 1),
                   OwnHandlers(e, event, OfferWidgets(e, wid, event, 1)))

-----------------------------------------------------------------------------
(* State of the parts a specification does not exercise *)

InitWindowIdle == win = [running |-> FALSE] /\ rend = [running |-> FALSE, events |-> <<>>]
InitThreadsIdle == thr = <<>> /\ mu = [readers |-> 0, writer |-> Nil, held |-> FALSE]
InitButtonIdle == btn = NewButton
InitLabelIdle == lbl = NewLabel
InitWidgetsIdle == wid = <<>>
InitComponentsIdle == inp = NewInput /\ InitButtonIdle /\ InitLabelIdle /\ InitWidgetsIdle

-----------------------------------------------------------------------------
(* Reading a call log *)

\* the index of the line that returns from the call entered at line i
ReturnOf(L, i) ==
    CHOOSE j \in (i + 1)..Len(L) :
        /\ L[j].ev = "return" /\ L[j].depth = L[i].depth
        /\ \A k \in (i + 1)..(j - 1) : ~(L[k].ev = "return" /\ L[k].depth = L[i].depth)

\* the lines, in order, of the calls of kind ev made directly by the call entered at i
Direct(L, i, ev, depth) ==
    LET idx == {k \in (i + 1)..(ReturnOf(L, i) - 1) : L[k].ev = ev /\ L[k].depth = depth}
        nth[n \in 1..Cardinality(idx)] ==
            CHOOSE k \in idx : Cardinality({m \in idx : m < k}) = n - 1
    IN  nth
ChildCalls(L, i) == Direct(L, i, "HandleEvent", L[i].depth + 1)
OwnHandles(L, i) == Direct(L, i, "Handle", L[i].depth)
Entered(L) == {i \in 1..Len(L) : L[i].ev = "HandleEvent"}

\* whether the last call made directly by the call entered at i consumed
ChildConsumed(L, i) ==
    LET cc == ChildCalls(L, i)
    IN  Len(cc) > 0 /\ L[ReturnOf(L, cc[Len(cc)])].ret = TRUE

RenderCalls(L, i) == Direct(L, i, "Render", L[i].depth + 1)
Rendered(L) == {i \in 1..Len(L) : L[i].ev = "Render"}

\* the point lies outside the bounds of the node
Outside(e, px, py) ==
    ~(/\ elem[e].x <= px /\ px < elem[e].x + elem[e].width
      /\ elem[e].y <= py /\ py < elem[e].y + elem[e].height)

-----------------------------------------------------------------------------
(* Hit-testing: ContainsPoint over elements of every geometry *)

IntSamples == {MinInt, -1, 0, 1, 2, MaxInt}

InitContains ==
    /\ \E ex \in IntSamples, ey \in {0, MaxInt}, w \in IntSamples, h \in {-1, 1, 2} :
          elem = [n \in Nodes |-> NewElement(ex, ey, w, h)]
    /\ call = NoCall
    /\ InitWindowIdle
    /\ InitThreadsIdle
    /\ InitComponentsIdle

NextContains ==
    \/ \E px \in IntSamples, py \in {-1, 0, 1, MaxInt} : ContainsPointCall(Root, px, py)
    \/ \E px \in {0, MaxInt}, py \in {0, MaxInt} : SetPosition(Root, px, py)
    \/ \E w \in {-1, 2}, h \in {-1, 2} : SetSize(Root, w, h)

SpecContains == InitContains /\ [][NextContains]_vars

\* C3: ContainsPoint(x,y) on an element with bounds (ex,ey,w,h) returns true
\* iff ex <= x < ex+w and ey <= y < ey+h, for all integer inputs; an element
\* with w <= 0 or h <= 0 contains no point.
C3_ContainsPointHalfOpen ==
    call.op = "ContainsPoint" =>
        LET e == elem[call.node]
            px == call.arg[1]
            py == call.arg[2]
        IN  /\ call.res = (/\ e.x <= px /\ px < e.x + e.width
                           /\ e.y <= py /\ py < e.y + e.height)
            /\ (e.width <= 0 \/ e.height <= 0) => call.res = FALSE

\* The same statement restricted to elements whose right and bottom edges are
\* representable (ex+w and ey+h within the int range): this is the part of
\* C3 the code satisfies.
C3_HalfOpenWithoutOverflow ==
    call.op = "ContainsPoint" =>
        LET e == elem[call.node]
            px == call.arg[1]
            py == call.arg[2]
        IN  (/\ e.x + e.width \in MinInt..MaxInt
             /\ e.y + e.height \in MinInt..MaxInt)
            => /\ call.res = (/\ e.x <= px /\ px < e.x + e.width
                              /\ e.y <= py /\ py < e.y + e.height)
               /\ (e.width <= 0 \/ e.height <= 0) => call.res = FALSE

-----------------------------------------------------------------------------
(* Composition: any sequence of AddChild/RemoveChild calls, with the other  *)
(* mutators interleaved so that every field holds non-default values        *)

TreeNodes == {"P", "A", "B"}
TreeParents == {"P", "A"}

InitTree ==
    /\ elem = [n \in Nodes |-> NewElement(0, 0, 4, 4)]
    /\ call = NoCall
    /\ InitWindowIdle
    /\ InitThreadsIdle
    /\ InitComponentsIdle

NextTree ==
    \/ \E e \in TreeParents, child \in TreeNodes : Edges < MaxEdges /\ AddChild(e, child)
    \/ \E e \in TreeParents, child \in TreeNodes : RemoveChild(e, child)
    \/ \E v \in BOOLEAN : SetVisible(Root, v)
    \/ \E px \in {0, 2} : SetPosition(Root, px, 0)
    \/ \E w \in {2, 4} : SetSize(Root, w, 4)
    \/ /\ Len(elem[Root].handlers[EventTypeClick]) < MaxHandlers
       /\ AddEventHandler(Root, EventTypeClick, Consume)

SpecTree == InitTree /\ [][NextTree]_vars

\* C8: after any sequence of AddChild/RemoveChild calls the element
\* structure is a tree: no node reaches itself through the children
\* relation, and no node appears in the children of two different parents
\* or twice in the same children list.
C8_StructureIsTree ==
    /\ \A n \in Nodes : n \notin Descendants(n)
    /\ \A p, q \in Nodes : p # q => Range(elem[p].children) \cap Range(elem[q].children) = {}
    /\ \A p \in Nodes : \A i, j \in 1..Len(elem[p].children) :
          i # j => elem[p].children[i] # elem[p].children[j]

\* every field of every node but the children of node e is as before
FrameButChildren(e) ==
    \A n \in Nodes :
        /\ elem'[n].x = elem[n].x /\ elem'[n].y = elem[n].y
        /\ elem'[n].width = elem[n].width /\ elem'[n].height = elem[n].height
        /\ elem'[n].visible = elem[n].visible
        /\ elem'[n].handlers = elem[n].handlers
        /\ elem'[n].parent = elem[n].parent
        /\ n # e => elem'[n].children = elem[n].children

\* C9: AddChild appends the child at the end of the children sequence;
\* RemoveChild(c) leaves the sequence unchanged when c is not a direct child
\* and otherwise removes exactly the first occurrence of c, keeping the
\* order of the others; neither changes position, size, visibility or
\* handlers.
C9_AddRemoveEffect ==
    [][LET e == call'.node
           c == call'.arg[1]
           old == elem[e].children
           new == elem'[e].children
       IN  /\ call'.op = "AddChild" =>
                /\ Len(new) = Len(old) + 1
                /\ new[Len(new)] = c
                /\ \A i \in 1..Len(old) : new[i] = old[i]
                /\ FrameButChildren(e)
           /\ call'.op = "RemoveChild" =>
                /\ c \notin Range(old) => new = old
                /\ c \in Range(old) =>
                      \E i \in 1..Len(old) :
                          /\ old[i] = c
                          /\ \A j \in 1..(i - 1) : old[j] # c
                          /\ Len(new) = Len(old) - 1
                          /\ \A j \in 1..(i - 1) : new[j] = old[j]
                          /\ \A j \in i..Len(new) : new[j] = old[j + 1]
                /\ FrameButChildren(e)
      ]_vars

\* a RemoveChild(c) has removed the first of several occurrences of c from
\* a node that is hidden, moved and resized
C9_Witness ==
    /\ call.op = "RemoveChild"
    /\ call.arg[1] \in Range(elem[call.node].children)
    /\ call.arg[1] # elem[call.node].children[1]
    /\ ~elem[Root].visible /\ elem[Root].x = 2 /\ elem[Root].width = 2
    /\ call.node = Root
    /\ Len(elem[Root].handlers[EventTypeClick]) > 0

-----------------------------------------------------------------------------
(* Dispatch order: trees of overlapping elements, some of which hold a      *)
(* consuming Click handler                                                   *)

DispatchEvents == {NewClickEvent(1, 1), NewPlainEvent(EventTypeKeyPress)}

InitDispatch ==
    /\ elem = [n \in Nodes |-> NewElement(0, 0, 4, 4)]
    /\ call = NoCall
    /\ InitWindowIdle
    /\ InitThreadsIdle
    /\ InitComponentsIdle

NextDispatch ==
    \/ \E e \in Nodes, child \in Nodes :
          Edges < MaxEdges /\ WellFormedAdd(e, child) /\ AddChild(e, child)
    \/ \E e \in Nodes, child \in Nodes : child \in Range(elem[e].children) /\ RemoveChild(e, child)
    \/ \E e \in Nodes :
          Handlers_Total < MaxHandlers /\ AddEventHandler(e, EventTypeClick, Consume)
    \/ \E event \in DispatchEvents : HandleEventCall(Root, event)

SpecDispatch == InitDispatch /\ [][NextDispatch]_vars

\* C1: HandleEvent offers an event to the children in reverse insertion
\* order; as soon as one child's HandleEvent returns true the parent returns
\* true, and no earlier-inserted sibling and none of the parent's own
\* handlers is invoked for that event.
C1_ReverseOrderFirstConsumerWins ==
    call.op = "HandleEvent" =>
        \A i \in Entered(call.log) :
            LET L == call.log
                kids == elem[L[i].node].children
                n == Len(kids)
                cc == ChildCalls(L, i)
                m == Len(cc)
            IN  /\ m <= n
                /\ \A k \in 1..m : L[cc[k]].node = kids[n - k + 1]
                /\ \A k \in 1..(m - 1) : L[ReturnOf(L, cc[k])].ret = FALSE
                /\ (m > 0 /\ L[ReturnOf(L, cc[m])].ret = TRUE) =>
                      /\ L[ReturnOf(L, i)].ret = TRUE
                      /\ ReturnOf(L, i) = ReturnOf(L, cc[m]) + 1
                      /\ Len(OwnHandles(L, i)) = 0
                /\ (m < n /\ ~Outside(L[i].node, call.arg.X, call.arg.Y)) =>
                      (m > 0 /\ L[ReturnOf(L, cc[m])].ret = TRUE)

\* a parent with children [A, B, C] whose handler would consume the event
\* was offered it after C declined, B consumed it and A never saw it
C1_Witness ==
    /\ call.op = "HandleEvent" /\ call.node = Root /\ call.res = TRUE
    /\ elem[Root].children = <<"A", "B", "C">>
    /\ elem[Root].handlers[call.arg.type] # <<>>
    /\ LET cc == ChildCalls(call.log, 1)
       IN  /\ Len(cc) = 2
           /\ call.log[cc[1]].node = "C" /\ call.log[cc[2]].node = "B"

-----------------------------------------------------------------------------
(* Handler chains: a parent and a child with handlers of several kinds      *)

ChainNodes == {"P", "A"}
ChainKinds == {EventTypeClick, EventTypeKeyPress}
ChainEvents == {NewClickEvent(1, 1), NewPlainEvent(EventTypeKeyPress),
                NewPlainEvent(EventTypeFocus)}

InitChain ==
    /\ elem = [n \in Nodes |-> NewElement(0, 0, 4, 4)]
    /\ call = NoCall
    /\ InitWindowIdle
    /\ InitThreadsIdle
    /\ InitComponentsIdle

NextChain ==
    \/ \E e \in ChainNodes, child \in ChainNodes :
          Edges < MaxEdges /\ WellFormedAdd(e, child) /\ AddChild(e, child)
    \/ \E e \in ChainNodes, t \in ChainKinds, h \in Handlers :
          Handlers_Total < MaxHandlers /\ AddEventHandler(e, t, h)
    \/ \E e \in ChainNodes, event \in ChainEvents : HandleEventCall(e, event)

SpecChain == InitChain /\ [][NextChain]_vars

\* C4: a node's own handlers run only if no child consumed the event; only
\* the handlers registered for the event's kind are invoked, in registration
\* order, stopping at the first that returns true; HandleEvent returns true
\* iff some child or some handler returned true, so a node with no children
\* and no handlers returns false, and a consumed event has exactly one
\* consumer.
C4_HandlerChain ==
    call.op = "HandleEvent" =>
        LET L == call.log
            consumers == {k \in 1..Len(L) : L[k].ev = "Handle" /\ L[k].ret = TRUE}
        IN  /\ \A i \in Entered(L) :
                  LET e == L[i].node
                      chain == elem[e].handlers[call.arg.type]
                      hs == OwnHandles(L, i)
                      m == Len(hs)
                  IN  /\ ChildConsumed(L, i) => m = 0
                      /\ m <= Len(chain)
                      /\ \A k \in 1..m : L[hs[k]].idx = k /\ L[hs[k]].ret = chain[k].ret
                      /\ \A k \in 1..(m - 1) : L[hs[k]].ret = FALSE
                      /\ (m < Len(chain) /\ ~ChildConsumed(L, i)) => (m > 0 /\ L[hs[m]].ret = TRUE)
                      /\ L[ReturnOf(L, i)].ret =
                            (ChildConsumed(L, i) \/ \E k \in 1..m : L[hs[k]].ret = TRUE)
                      /\ (elem[e].children = <<>> /\ \A t \in EventTypes : elem[e].handlers[t] = <<>>)
                            => L[ReturnOf(L, i)].ret = FALSE
            /\ call.res = L[ReturnOf(L, 1)].ret
            /\ Cardinality(consumers) = IF call.res THEN 1 ELSE 0

\* the child declined, and the parent's chain for the event's kind ran past
\* a declining handler to a consuming one
C4_Witness ==
    /\ call.op = "HandleEvent" /\ call.node = Root /\ call.res = TRUE
    /\ call.arg.type = EventTypeKeyPress
    /\ elem[Root].children = <<"A">>
    /\ elem[Root].handlers[EventTypeKeyPress] = <<Decline, Consume>>
    /\ Len(OwnHandles(call.log, 1)) = 2

\* a dispatch in which the parent holds handlers of a kind other than the
\* event's and its child holds a handler: nothing of the parent is invoked
C4_OtherKindWitness ==
    /\ call.op = "HandleEvent" /\ call.node = Root /\ call.res = FALSE
    /\ call.arg.type = EventTypeKeyPress
    /\ elem[Root].handlers[EventTypeClick] # <<>>
    /\ Len(OwnHandles(call.log, 1)) = 0

-----------------------------------------------------------------------------
(* Bounds gating: a parent and a child, side by side or overlapping, with   *)
(* consuming handlers of every kind, offered events of every kind           *)

GateNodes == {"P", "A"}
GateEvents == {NewClickEvent(1, 1), NewClickEvent(5, 1), NewMouseMoveEvent(5, 1)}
              \cup {NewPlainEvent(t) : t \in EventTypes \ {EventTypeClick, EventTypeMouseMove}}

InitGate ==
    /\ elem = [n \in Nodes |-> NewElement(0, 0, 4, 4)]
    /\ call = NoCall
    /\ InitWindowIdle
    /\ InitThreadsIdle
    /\ InitComponentsIdle

NextGate ==
    \/ \E e \in GateNodes, child \in GateNodes :
          Edges < MaxEdges /\ WellFormedAdd(e, child) /\ AddChild(e, child)
    \/ \E px \in {0, 4} : SetPosition("A", px, 0)
    \/ \E e \in GateNodes, t \in EventTypes :
          Handlers_Total < MaxHandlers /\ AddEventHandler(e, t, Consume)
    \/ \E event \in GateEvents : HandleEventCall(Root, event)

SpecGate == InitGate /\ [][NextGate]_vars

\* C2: bounds gating applies to Click events only. HandleEvent with a Click
\* whose point is outside the node's bounds returns false without invoking
\* HandleEvent on any child or any of the node's handlers (so a child lying
\* outside its parent's bounds never receives a Click); for every other kind
\* the children and the handlers are offered the event whatever the
\* geometry.
C2_BoundsGateClickOnly ==
    call.op = "HandleEvent" =>
        \A i \in Entered(call.log) :
            LET L == call.log
                e == L[i].node
                event == call.arg
                chain == elem[e].handlers[event.type]
            IN  /\ (event.type = EventTypeClick /\ Outside(e, event.X, event.Y)) =>
                      /\ ReturnOf(L, i) = i + 1
                      /\ L[i + 1].ret = FALSE
                /\ (event.type = EventTypeClick /\ L[i].depth > 0) =>
                      \E j \in 1..(i - 1) :
                          /\ L[j].ev = "HandleEvent" /\ L[j].depth = L[i].depth - 1
                          /\ ReturnOf(L, j) > i
                          /\ ~Outside(L[j].node, event.X, event.Y)
                /\ event.type # EventTypeClick =>
                      /\ Len(ChildCalls(L, i)) = Len(elem[e].children)
                            \/ ChildConsumed(L, i)
                      /\ (~ChildConsumed(L, i) /\ chain # <<>>) => Len(OwnHandles(L, i)) > 0

\* a Click outside the parent but inside its child, which holds a consuming
\* Click handler, was dropped by the parent
C2_Witness ==
    /\ call.op = "HandleEvent" /\ call.node = Root /\ call.res = FALSE
    /\ call.arg = NewClickEvent(5, 1)
    /\ elem[Root].children = <<"A">>
    /\ ~Outside("A", 5, 1)
    /\ elem["A"].handlers[EventTypeClick] # <<>>
    /\ Len(call.log) = 2

\* a MouseMove at a point outside the parent reached the child's handler
C2_NonClickWitness ==
    /\ call.op = "HandleEvent" /\ call.node = Root /\ call.res = TRUE
    /\ call.arg = NewMouseMoveEvent(5, 1)
    /\ Outside(Root, 5, 1)
    /\ elem[Root].children = <<"A">>
    /\ elem["A"].handlers[EventTypeMouseMove] # <<>>

-----------------------------------------------------------------------------
(* Visibility and rendering: trees of containers and labels, shown or       *)
(* hidden, rendered on canvases that fail for some labels                    *)

Containers == Nodes \ Labels

InitVisible ==
    /\ elem = [n \in Nodes |-> NewElement(0, 0, 4, 4)]
    /\ call = NoCall
    /\ InitWindowIdle
    /\ InitThreadsIdle
    /\ InitComponentsIdle

NextVisible ==
    \/ \E e \in Containers, child \in Nodes :
          Edges < MaxEdges /\ WellFormedAdd(e, child) /\ AddChild(e, child)
    \/ \E e \in Nodes, v \in BOOLEAN : SetVisible(e, v)
    \/ \E e \in Labels :
          Handlers_Total < MaxHandlers /\ AddEventHandler(e, EventTypeClick, Consume)
    \/ \E bad \in SUBSET Labels : RenderCall(Root, bad)
    \/ HandleEventCall(Root, NewClickEvent(1, 1))

SpecVisible == InitVisible /\ [][NextVisible]_vars

\* C6: visibility affects rendering but not dispatch. Render on an
\* invisible node returns success without rendering any child of its
\* subtree; HandleEvent traverses and answers by children, bounds and
\* handlers alone, the same for visible and invisible nodes: every node it
\* enters offers the event to its children and then to its handlers, and
\* answers true iff one of them consumed it.
C6_VisibilityRenderOnly ==
    /\ call.op = "Render" =>
          \A i \in Rendered(call.log) :
              ~elem[call.log[i].node].visible =>
                  /\ ReturnOf(call.log, i) = i + 1
                  /\ call.log[i + 1].ret = Nil
    /\ call.op = "HandleEvent" =>
          \A i \in Entered(call.log) :
              LET L == call.log
                  e == L[i].node
                  hs == OwnHandles(L, i)
              IN  ~Outside(e, call.arg.X, call.arg.Y) =>
                      /\ Len(ChildCalls(L, i)) = Len(elem[e].children) \/ ChildConsumed(L, i)
                      /\ ~ChildConsumed(L, i) =>
                            (Len(hs) > 0) = (elem[e].handlers[call.arg.type] # <<>>)
                      /\ L[ReturnOf(L, i)].ret =
                            (ChildConsumed(L, i) \/ \E k \in 1..Len(hs) : L[hs[k]].ret = TRUE)

\* an invisible child of an invisible root consumed a Click
C6_Witness ==
    /\ call.op = "HandleEvent" /\ call.res = TRUE
    /\ ~elem[Root].visible
    /\ \E k \in 1..Len(call.log) :
          /\ call.log[k].ev = "Handle" /\ call.log[k].ret = TRUE
          /\ call.log[k].node # Root
          /\ ~elem[call.log[k].node].visible

\* an invisible container with children was rendered: nothing below it was
C6_RenderWitness ==
    /\ call.op = "Render" /\ call.res = Nil
    /\ \E i \in Rendered(call.log) :
          /\ ~elem[call.log[i].node].visible
          /\ elem[call.log[i].node].children # <<>>
          /\ call.log[i].depth > 0

\* C7: Element.Render on a visible node renders its children in insertion
\* order and is fail-fast: when child k returns an error, Render returns
\* exactly that error and no child after k is rendered; it returns success
\* iff every child rendered successfully.
C7_RenderFailFast ==
    call.op = "Render" =>
        \A i \in Rendered(call.log) :
            LET L == call.log
                e == L[i].node
                kids == elem[e].children
                rc == RenderCalls(L, i)
                m == Len(rc)
                result == L[ReturnOf(L, i)].ret
            IN  (e \in Containers /\ elem[e].visible) =>
                    /\ m <= Len(kids)
                    /\ \A k \in 1..m : L[rc[k]].node = kids[k]
                    /\ \A k \in 1..(m - 1) : L[ReturnOf(L, rc[k])].ret = Nil
                    /\ (m > 0 /\ L[ReturnOf(L, rc[m])].ret # Nil) =>
                          /\ result = L[ReturnOf(L, rc[m])].ret
                          /\ ReturnOf(L, i) = ReturnOf(L, rc[m]) + 1
                    /\ m < Len(kids) => (m > 0 /\ L[ReturnOf(L, rc[m])].ret # Nil)
                    /\ (result = Nil) =
                          (m = Len(kids) /\ \A k \in 1..m : L[ReturnOf(L, rc[k])].ret = Nil)

\* the root has children [A, B, C]; the canvas fails for both labels; Render
\* returned the error of B, after A rendered, and C was not rendered
C7_Witness ==
    /\ call.op = "Render" /\ call.node = Root
    /\ elem[Root].children = <<"A", "B", "C">>
    /\ call.arg = {"B", "C"}
    /\ call.res = Err("B")
    /\ Len(RenderCalls(call.log, 1)) = 2

-----------------------------------------------------------------------------
(* Per-node locking: threads of the host calling methods of one element,    *)
(* each method taken apart into its lock operations                          *)

Threads == {"T1", "T2"}

ReadOps == {"HandleEventClick", "HandleEventKeyPress", "Render"}
WriteOps == {"SetPosition", "SetSize", "SetVisible", "AddChild", "RemoveChild",
             "AddEventHandler"}

Idle == [pc |-> "idle", op |-> "none"]

\* sync.RWMutex: RLock succeeds unless a writer has announced itself or
\* holds the lock; a reader arriving later waits until that writer unlocks
RLock(t, next) ==
    /\ mu.writer = Nil
    /\ mu' = [mu EXCEPT !.readers = @ + 1]
    /\ thr' = [thr EXCEPT ![t].pc = next]

RUnlock(t, next) ==
    /\ mu' = [mu EXCEPT !.readers = @ - 1]
    /\ thr' = [thr EXCEPT ![t].pc = next]

\* sync.RWMutex.Lock, first half: exclude the other writers and announce
\* the pending writer to the readers
LockAnnounce(t, next) ==
    /\ mu.writer = Nil
    /\ mu' = [mu EXCEPT !.writer = t]
    /\ thr' = [thr EXCEPT ![t].pc = next]

\* sync.RWMutex.Lock, second half: wait for the active readers to leave
LockAcquire(t, next) ==
    /\ mu.writer = t /\ mu.readers = 0
    /\ mu' = [mu EXCEPT !.held = TRUE]
    /\ thr' = [thr EXCEPT ![t].pc = next]

Unlock(t, next) ==
    /\ mu' = [mu EXCEPT !.writer = Nil, !.held = FALSE]
    /\ thr' = [thr EXCEPT ![t].pc = next]

\* what the body of a write mutator assigns on the element m, child being
\* the element AddChild and RemoveChild are given (gui.go:90, 97, 111, 118,
\* 125-130, 194)
WrittenTo(m, child, op) ==
    CASE op = "SetPosition" -> [elem EXCEPT ![m].x = 1 - @]
      [] op = "SetSize" -> [elem EXCEPT ![m].width = 4 - @]
      [] op = "SetVisible" -> [elem EXCEPT ![m].visible = ~@]
      [] op = "AddChild" -> [elem EXCEPT ![m].children = AppendChild(@, child)]
      [] op = "RemoveChild" -> [elem EXCEPT ![m].children = WithoutChild(@, child)]
      [] op = "AddEventHandler" ->
            [elem EXCEPT ![m].handlers[EventTypeKeyPress] = Append(@, Decline)]

\* the mutators of the contended element
Written(op) == WrittenTo(Root, "A", op)

\* a thread of the host calls a method of the element
StartCall(t, op) ==
    /\ thr[t].pc = "idle"
    /\ op = "AddChild" => Len(elem[Root].children) < MaxContended
    /\ op = "AddEventHandler" => Len(elem[Root].handlers[EventTypeKeyPress]) < MaxContended
    /\ thr' = [thr EXCEPT ![t] = [pc |-> IF op \in ReadOps THEN "rlock" ELSE "lock", op |-> op]]
    /\ UNCHANGED <<elem, mu, call, windowVars, componentVars>>

\* the next step of the method thread t is executing
Step(t) ==
    LET pc == thr[t].pc
        op == thr[t].op
    IN  \/ /\ pc = "rlock"                    \* e.mu.RLock() (gui.go:81, 142, 161)
           /\ RLock(t, IF op = "HandleEventClick" THEN "contains_rlock" ELSE "runlock")
           /\ UNCHANGED <<elem, call, windowVars, componentVars>>
        \/ /\ pc = "contains_rlock"           \* e.ContainsPoint: e.mu.RLock() (gui.go:166, 135)
           /\ RLock(t, "contains_runlock")
           /\ UNCHANGED <<elem, call, windowVars, componentVars>>
        \/ /\ pc = "contains_runlock"         \* ContainsPoint returns (gui.go:136)
           /\ RUnlock(t, "runlock")
           /\ UNCHANGED <<elem, call, windowVars, componentVars>>
        \/ /\ pc = "runlock"                  \* deferred e.mu.RUnlock() (gui.go:82, 143, 162)
           /\ RUnlock(t, "idle")
           /\ UNCHANGED <<elem, call, windowVars, componentVars>>
        \/ /\ pc = "lock"                     \* e.mu.Lock() (gui.go:88, 95, 109, 116, 123, 192)
           /\ LockAnnounce(t, "lock_wait")
           /\ UNCHANGED <<elem, call, windowVars, componentVars>>
        \/ /\ pc = "lock_wait"
           /\ LockAcquire(t, "write")
           /\ UNCHANGED <<elem, call, windowVars, componentVars>>
        \/ /\ pc = "write"                    \* the assignment under the lock
           /\ elem' = Written(op)
           /\ thr' = [thr EXCEPT ![t].pc = "unlock"]
           /\ UNCHANGED <<mu, call, windowVars, componentVars>>
        \/ /\ pc = "unlock"                   \* deferred e.mu.Unlock()
           /\ Unlock(t, "idle")
           /\ UNCHANGED <<elem, call, windowVars, componentVars>>

InitThreads ==
    /\ elem = [n \in Nodes |-> NewElement(0, 0, 4, 4)]
    /\ call = NoCall
    /\ InitWindowIdle
    /\ InitComponentsIdle
    /\ thr = [t \in Threads |-> Idle]
    /\ mu = [readers |-> 0, writer |-> Nil, held |-> FALSE]

NextThreads ==
    \/ \E t \in Threads, op \in ReadOps \cup WriteOps : StartCall(t, op)
    \/ \E t \in Threads : Step(t)

\* the scheduler runs every thread that can run
SpecThreads == InitThreads /\ [][NextThreads]_vars /\ \A t \in Threads : WF_vars(Step(t))

InCall(t) == thr[t].pc # "idle"

\* C5: when one thread runs HandleEvent with a Click (or Render) on a node
\* while another thread calls a write mutator on the same node, both calls
\* always return under fair scheduling: no state is reached in which calls
\* are in progress and none of their threads can take a step.
C5_NoDeadlock ==
    (\E t \in Threads : InCall(t)) => (\E t \in Threads : InCall(t) /\ ENABLED Step(t))

\* the same claim as a liveness property: every call returns
C5_EveryCallReturns ==
    \A t \in Threads : InCall(t) ~> ~InCall(t)

\* Render and the mutators alone do return: without a nested read lock no
\* thread waits for a lock that is never released
C5_OnlyNestedReadLockBlocks ==
    \A t \in Threads :
        (InCall(t) /\ ~ENABLED Step(t) /\ ~\E u \in Threads : InCall(u) /\ ENABLED Step(u))
            => \E u \in Threads : thr[u].pc = "contains_rlock"

-----------------------------------------------------------------------------
(* Window lifecycle: Show, Close, IsRunning, Update and PollEvents in any   *)
(* order on a window holding labels                                          *)

CanvasOps == {"Clear", "Present"}

\* window sizes in units of 100 pixels: 400x300, and a degenerate one
WindowSizes == {<<4, 3>>, <<0, 0>>}

InitLifecycle ==
    /\ InitWindow(4, 3)
    /\ InitThreadsIdle
    /\ InitComponentsIdle

NextLifecycle ==
    \/ \E mkdirFails \in BOOLEAN :
          Len(rend.events) < MaxQueue * Len(TestEvents) /\ Show(mkdirFails)
    \/ Close
    \/ IsRunning
    \/ \E bad \in SUBSET (Labels \cup CanvasOps) : UpdateCall(bad)
    \/ \E stale \in BOOLEAN : PollEvents(stale)
    \/ \E child \in Labels : WellFormedAdd(Root, child) /\ AddChild(Root, child)
    \/ \E size \in WindowSizes : NewWindowCall(size[1], size[2])

SpecLifecycle == InitLifecycle /\ [][NextLifecycle]_vars

\* C10: IsRunning is false after construction, true after every Show, false
\* after every Close and true again after a Show that follows a Close; the
\* running flag always reflects the most recent of Show and Close, also when
\* the renderer's Show or Close returned an error.
C10_RunningFollowsShowClose ==
    /\ win.running = FALSE
    /\ [][/\ call'.op = "Show" => win'.running = TRUE
          /\ call'.op = "Close" => win'.running = FALSE
          /\ call'.op \notin {"Show", "Close"} => win'.running = win.running
          /\ call'.op = "IsRunning" => call'.res = win.running
         ]_vars

\* the renderer refused a second Show and the window is running; the queue
\* holds the batch of the one Show that succeeded
C10_Witness ==
    /\ call.op = "Show" /\ call.res = "window already shown"
    /\ win.running = TRUE

\* a Show whose renderer failed before the window ever opened left the
\* window running over a renderer that is not
C10_FailedShowWitness ==
    /\ call.op = "Show" /\ call.res = "failed to create output directory"
    /\ win.running = TRUE /\ ~rend.running

\* the lines of a log that are calls of the canvas
CanvasCalls(L) == {k \in 1..Len(L) : L[k].ev \in {"Clear", "DrawText", "Present"}}

\* C11: Update makes no canvas call and returns nil when the window is not
\* running; when running it calls Clear, then renders the root tree, then
\* Present, in that order; if the tree's Render returns an error Present is
\* never called and Update returns that error; otherwise Update returns
\* Present's result.
C11_UpdateOrder ==
    call.op = "Update" =>
        LET L == call.log
        IN  IF ~win.running THEN CanvasCalls(L) = {} /\ call.res = Nil
            ELSE /\ L[1].ev = "Clear"
                 /\ L[2].ev = "Render" /\ L[2].node = Root /\ L[2].depth = 0
                 /\ \A k \in 2..Len(L) : L[k].ev # "Clear"
                 /\ LET j == ReturnOf(L, 2)
                    IN  /\ \A k \in 1..j : L[k].ev # "Present"
                        /\ IF L[j].ret # Nil
                           THEN Len(L) = j /\ call.res = L[j].ret
                           ELSE /\ Len(L) = j + 1
                                /\ L[j + 1].ev = "Present"
                                /\ call.res = L[j + 1].ret

\* an Update of a running window whose second label failed to draw: the
\* first label was drawn, Present was not called
C11_Witness ==
    /\ call.op = "Update" /\ win.running
    /\ Len(elem[Root].children) = 2
    /\ call.res = Err(elem[Root].children[2])
    /\ \E k \in CanvasCalls(call.log) :
          call.log[k].ev = "DrawText" /\ call.log[k].ret = Nil

\* an Update whose Present failed after a successful render
C11_PresentWitness ==
    /\ call.op = "Update" /\ call.res = Err("Present")

\* C12: any failing canvas call made during Update, the initial Clear
\* included, is the last canvas call of the pass, and its error is what
\* Update returns.
C12_AnyCanvasFailureAborts ==
    call.op = "Update" =>
        \A k \in CanvasCalls(call.log) :
            call.log[k].ret # Nil =>
                /\ call.res = call.log[k].ret
                /\ \A m \in CanvasCalls(call.log) : m <= k

\* the same for every canvas call but Clear, whose error Update drops
C12_FailureAfterClearAborts ==
    call.op = "Update" =>
        \A k \in CanvasCalls(call.log) :
            (call.log[k].ret # Nil /\ call.log[k].ev # "Clear") =>
                /\ call.res = call.log[k].ret
                /\ \A m \in CanvasCalls(call.log) : m <= k

\* an Update whose Clear failed, and which rendered, presented and returned nil
C12_ClearFailureDropped ==
    /\ call.op = "Update" /\ call.res = Nil
    /\ call.log[1].ev = "Clear" /\ call.log[1].ret = Err("Clear")
    /\ call.log[Len(call.log)].ev = "Present"

\* C13: every Show invokes the renderer's Show exactly once, also on a
\* window already shown, and every Close invokes the renderer's Close exactly
\* once, also on a window already closed; each returns the renderer's result
\* unchanged, and PollEvents returns exactly the batch the renderer returns.
C13_AlwaysDelegates ==
    [][/\ call'.op = "Show" =>
            /\ Len(call'.log) = 1 /\ call'.log[1].ev = "Renderer.Show"
            /\ call'.res = call'.log[1].ret
            /\ IF rend.running
               THEN call'.res = "window already shown" /\ rend' = rend
               ELSE \/ call'.res = "failed to create output directory" /\ rend' = rend
                    \/ /\ call'.res = Nil /\ rend'.running
                       /\ rend'.events = rend.events \o TestEvents
       /\ call'.op = "Close" =>
            /\ Len(call'.log) = 1 /\ call'.log[1].ev = "Renderer.Close"
            /\ call'.res = call'.log[1].ret /\ call'.res = Nil
            /\ rend' = [rend EXCEPT !.running = FALSE]
       /\ call'.op = "PollEvents" =>
            /\ Len(call'.log) = 1 /\ call'.log[1].ev = "Renderer.PollEvents"
            /\ call'.res = call'.log[1].ret
            /\ call'.res = IF rend.running THEN rend.events ELSE <<>>
      ]_vars

\* a Close of a window that was already closed reached the renderer
C13_Witness ==
    /\ call.op = "Close" /\ call.arg = <<FALSE>>
    /\ Len(call.log) = 1 /\ call.log[1].ev = "Renderer.Close"

\* a second Show reached the renderer, which refused it
C13_ShowTwiceWitness ==
    /\ call.op = "Show" /\ Len(call.log) = 1
    /\ call.log[1].ret = "window already shown"

\* C14: NewWindow with dimensions 400x300 succeeds and yields a root element
\* with bounds (0,0,400,300) and running=false.
C14_NewWindowSucceeds ==
    (call.op = "NewWindow" /\ call.arg = <<4, 3>>) =>
        /\ call.res.err = Nil
        /\ call.res.window # Nil
        /\ call.res.window.root = NewElement(0, 0, 4, 3)
        /\ call.res.window.running = FALSE

\* NewWindow fails only when the construction of the renderer or of the
\* canvas fails, and then returns no window and the underlying error
C14_FailsOnlyOnConstruction ==
    call.op = "NewWindow" =>
        (call.res.err # Nil =>
            /\ call.res.window = Nil
            /\ call.res.err \in {"platform renderer not implemented",
                                 "failed to create base canvas"})

\* the rest of the scenario, on a window assembled over the StubRenderer:
\* clicks inside the root of a shown window without handlers are not
\* consumed, and the Update of a tree on a sound canvas returns nil
C14_ScenarioOnAssembledWindow ==
    /\ (call.op = "Update" /\ call.arg = {}) => call.res = Nil
    /\ \A e \in {NewClickEvent(1, 1), NewClickEvent(3, 2)} :
          /\ ContainsPoint(Root, e.X, e.Y)
          /\ HandleEvent(Root, e, 0).res = FALSE

-----------------------------------------------------------------------------
(* The Input through its public surface: setters, Focus and Blur, and       *)
(* events of every kind the Input handles, dispatched to its element         *)

InputTexts == {<<>>, <<"a">>, <<"e", "acute">>, <<"e", "a", "e">>, <<"a", "e", "acute", "e">>}
MaxLengths == {-1, 0, 1, 2}
Fonts == {Face(1), Face(DefaultAdvance)}
TypedTexts == {<<"e">>, <<"a", "LF">>, <<"LF">>, <<"e", "acute">>}
InputEvents ==
    {NewClickEvent(0, 1), NewClickEvent(6, 1), NewClickEvent(7, 1),
     NewPlainEvent(EventTypeFocus), NewPlainEvent(EventTypeBlur),
     NewPlainEvent(EventTypeMouseMove)}
    \cup {NewKeyPressEvent(k) : k \in Keys}
    \cup {NewTextInputEvent(t) : t \in TypedTexts}

\* the text an event would add at most
Typed(event) == IF event.type = EventTypeTextInput THEN Len(event.Text) ELSE 0

InitInput ==
    /\ elem = [n \in Nodes |-> IF n = InputNode THEN NewElement(0, 0, 7, 2)
                                ELSE NewElement(0, 0, 2, 2)]
    /\ inp = NewInput
    /\ InitButtonIdle
    /\ InitLabelIdle
    /\ call = NoCall
    /\ InitWindowIdle
    /\ InitThreadsIdle
    /\ InitWidgetsIdle

NextInput ==
    \/ \E t \in InputTexts : InputSetText(t)
    \/ \E n \in MaxLengths : InputSetMaxLength(n)
    \/ \E v \in Validators : InputSetValidator(v)
    \/ \E cb \in {Nil, "recorder"} : InputSetOnChange(cb)
    \/ \E f \in Fonts : InputSetFont(f)
    \/ InputFocus
    \/ InputBlur
    \/ \E e \in InputEvents :
          Len(inp.text) + Typed(e) <= MaxText /\ InputDispatch(e)

SpecInput == InitInput /\ [][NextInput]_vars

\* C15: after any sequence of SetText, SetMaxLength, SetValidator, Focus and
\* Blur calls and of Click, KeyPress, TextInput, Focus and Blur events
\* dispatched to the Input, 0 <= cursorPos <= number of code points of text.
C15_CursorWithinText ==
    0 <= inp.cursorPos /\ inp.cursorPos <= Len(inp.text)

\* SetMaxLength cut the text down to the limit and the cursor sits at its end
C15_Witness ==
    /\ call.op = "SetMaxLength" /\ call.arg = 2
    /\ Len(inp.text) = 2 /\ inp.cursorPos = 2

\* a click placed the cursor inside the text
C15_ClickWitness ==
    /\ call.op = "HandleEvent" /\ call.arg.type = EventTypeClick /\ call.res = TRUE
    /\ 0 < inp.cursorPos /\ inp.cursorPos < Len(inp.text)

\* the first n code points of a text, or all of it when it has fewer
Leading(t, n) == SubSeq(t, 1, IF n < Len(t) THEN n ELSE Len(t))

\* the onChange calls an accepted change of the text to t makes, when the
\* host has set the callback
OnceWith(t) ==
    IF inp.onChange # Nil THEN <<Entry("onChange", InputNode, 0, 0, t)>> ELSE <<>>

\* the validator, if any, accepts the text
Accepts(t) == inp.validator = Nil \/ \A k \in 1..Len(t) : t[k] # "a"

\* C16 (as the code has it): SetText(t) that the validator does not reject
\* sets text to the first maxLength code points of the NFC form of t when
\* maxLength > 0 and to the NFC form of t otherwise, so GetText round-trips
\* exactly for text that is in NFC form and fits; it sets cursorPos to the
\* length of the new text, clears the selection, and invokes onChange exactly
\* once with the new text, also when the new text equals the previous text.
C16_SetTextNormalized ==
    call.op = "SetText" =>
        LET t == call.arg
            new == IF inp.maxLength > 0 THEN Leading(NFC(t), inp.maxLength) ELSE NFC(t)
        IN  Accepts(new) =>
                /\ inp.text = new
                /\ inp.cursorPos = Len(new)
                /\ inp.selectionStart = -1 /\ inp.selectionEnd = -1
                /\ call.log = OnceWith(new)
                /\ (NFC(t) = t /\ (inp.maxLength <= 0 \/ Len(t) <= inp.maxLength)) =>
                        inp.text = t

\* C16 (as stated): the new text is the first min(len(t), maxLength) code
\* points of normalized t when maxLength > 0 and t itself otherwise, so
\* GetText round-trips exactly for every text that fits.
C16_SetTextRoundTrips ==
    call.op = "SetText" =>
        LET t == call.arg
            new == IF inp.maxLength > 0 THEN Leading(NFC(t), inp.maxLength) ELSE t
        IN  Accepts(new) =>
                /\ inp.text = new
                /\ inp.cursorPos = Len(new)
                /\ inp.selectionStart = -1 /\ inp.selectionEnd = -1
                /\ call.log = OnceWith(new)
                /\ (inp.maxLength <= 0 \/ Len(t) <= inp.maxLength) => inp.text = t

\* a text of four code points, one pair of them composable, was set under a
\* limit of two: the text holds two code points, the second the composed one,
\* and onChange was told
C16_Witness ==
    /\ call.op = "SetText" /\ call.arg = <<"a", "e", "acute", "e">>
    /\ inp.maxLength = 2 /\ inp.validator = Nil
    /\ inp.text = <<"a", "eacute">> /\ inp.cursorPos = 2
    /\ Len(call.log) = 1

\* a decomposed text that fits was set and reads back composed
C16_ComposedWitness ==
    /\ call.op = "SetText" /\ call.arg = <<"e", "acute">>
    /\ inp.maxLength = -1 /\ inp.text = <<"eacute">>

\* C17: SetText rejected by the validator is a silent no-op: when a validator
\* is set and returns false for the normalized, length-truncated candidate,
\* text, cursorPos, selection and focus are unchanged and onChange is not
\* invoked.
C17_RejectedSetTextIsNoOp ==
    [][call'.op = "SetText" =>
          LET t == call'.arg
              candidate == IF inp.maxLength > 0 THEN Leading(NFC(t), inp.maxLength)
                           ELSE NFC(t)
          IN  (inp.validator # Nil /\ \E k \in 1..Len(candidate) : candidate[k] = "a") =>
                  /\ inp' = inp
                  /\ call'.log = <<>>
      ]_vars

\* SetText of a text the validator rejects, on a focused Input that holds
\* text and has the callback set
C17_Witness ==
    /\ call.op = "SetText" /\ call.arg = <<"e", "a", "e">>
    /\ inp.validator = "NoA" /\ inp.onChange # Nil /\ inp.maxLength = 2
    /\ inp.text = <<"eacute">> /\ inp.focused

-----------------------------------------------------------------------------
(* insertText on Inputs in every state: texts with the cursor anywhere,      *)
(* with or without a selection stored in either order, limited or not,       *)
(* validated or not                                                          *)

HeldTexts == {<<>>, <<"e">>, <<"a", "e">>, <<"e", "eacute", "TAB">>}
InsertedTexts == {<<"a">>, <<"e", "a">>, <<"e", "acute">>}

\* the limits an Input holding n code points can be under
LimitsFor(n) == {-1} \cup {m \in 1..MaxText : n <= m}

InitInsert ==
    /\ elem = [n \in Nodes |-> NewElement(0, 0, 2, 2)]
    /\ \E t \in HeldTexts, m \in {-1} \cup (1..MaxText), v \in Validators,
          cb \in {Nil, "recorder"} :
          \E c \in 0..Len(t), s \in -1..Len(t), e \in -1..Len(t) :
              /\ m \in LimitsFor(Len(t))
              /\ (s = -1) = (e = -1)
              /\ inp = [NewInput EXCEPT !.text = t, !.cursorPos = c,
                                        !.selectionStart = s, !.selectionEnd = e,
                                        !.focused = TRUE, !.maxLength = m,
                                        !.validator = v, !.onChange = cb]
    /\ InitButtonIdle
    /\ InitLabelIdle
    /\ call = NoCall
    /\ InitWindowIdle
    /\ InitThreadsIdle
    /\ InitWidgetsIdle

NextInsert ==
    \E t \in InsertedTexts :
        /\ inp.maxLength > 0 \/ Len(inp.text) + Len(t) <= MaxText
        /\ InputInsertText(t)

SpecInsert == InitInsert /\ [][NextInsert]_vars

\* What insertText is to do to an Input in state b, told apart from how the
\* code does it: the selected range, the text and the cursor once the range
\* is gone, the room a limit leaves, and the text the validator is asked about
Selected(b) ==
    b.selectionStart >= 0 /\ b.selectionEnd >= 0 /\ b.selectionStart # b.selectionEnd
Lo(b) == IF b.selectionStart < b.selectionEnd THEN b.selectionStart ELSE b.selectionEnd
Hi(b) == IF b.selectionStart < b.selectionEnd THEN b.selectionEnd ELSE b.selectionStart
Base(b) ==
    IF Selected(b) THEN SubSeq(b.text, 1, Lo(b)) \o SubSeq(b.text, Hi(b) + 1, Len(b.text))
    ELSE b.text
At(b) == IF Selected(b) THEN Lo(b) ELSE b.cursorPos
InsertAt(text, at, t) == SubSeq(text, 1, at) \o t \o SubSeq(text, at + 1, Len(text))
Room(b) == b.maxLength - Len(Base(b))
Incoming(b, t) == IF b.maxLength > 0 THEN Leading(NFC(t), Room(b)) ELSE NFC(t)
Prospective(b, t) == InsertAt(Base(b), At(b), Incoming(b, t))
Asked(b) == b.maxLength <= 0 \/ Room(b) > 0
Refused(b, t) ==
    /\ b.validator # Nil /\ Asked(b)
    /\ \E k \in 1..Len(Prospective(b, t)) : Prospective(b, t)[k] = "a"

C18_RejectedInsertWithoutSelection ==
    call.op = "insertText" =>
        LET b == call.arg.before
        IN  (Refused(b, call.arg.text) /\ ~Selected(b)) =>
                /\ inp.text = b.text
                /\ inp.cursorPos = b.cursorPos
                /\ inp.selectionStart = b.selectionStart
                /\ inp.selectionEnd = b.selectionEnd
                /\ call.log = <<>>

\* a refused insertion into a selection: the selected text is gone, the
\* cursor moved and the selection is cleared, and onChange was not told
C18_SelectionLost ==
    /\ call.op = "insertText" /\ Refused(call.arg.before, call.arg.text)
    /\ Selected(call.arg.before)
    /\ Len(inp.text) < Len(call.arg.before.text)
    /\ inp.selectionStart = -1
    /\ call.log = <<>>

C19_FullWitness ==
    /\ call.op = "insertText" /\ call.arg.before.maxLength = Len(call.arg.before.text)
    /\ ~Selected(call.arg.before)
    /\ inp.text = call.arg.before.text /\ call.log = <<>> /\ inp.onChange # Nil

\* C20: for any selection bounds (s,e) with s # e within [0, len(text)],
\* insertText(t) yields the same text and cursorPos as deleting the range
\* [min(s,e), max(s,e)) (the cursor collapsing to min(s,e), the selection
\* cleared) and then inserting t at that cursor; the result for (s,e) equals
\* the result for (e,s).
C20_SelectionNormalized ==
    (call.op = "insertText" /\ Selected(call.arg.before)) =>
        LET b == call.arg.before
            t == call.arg.text
            deleted == [b EXCEPT !.text = Base(b), !.cursorPos = Lo(b),
                                 !.selectionStart = -1, !.selectionEnd = -1]
            swapped == [b EXCEPT !.selectionStart = b.selectionEnd,
                                 !.selectionEnd = b.selectionStart]
        IN  /\ inp.text = insertText(deleted, t).inp.text
            /\ inp.cursorPos = insertText(deleted, t).inp.cursorPos
            /\ inp.text = insertText(swapped, t).inp.text
            /\ inp.cursorPos = insertText(swapped, t).inp.cursorPos
            /\ ~Refused(b, t) /\ Asked(b) => inp.text = Prospective(b, t)

\* an insertion into a selection stored with its start after its end
C20_Witness ==
    /\ call.op = "insertText" /\ call.arg.text = <<"e", "acute">>
    /\ call.arg.before.text = <<"e", "eacute", "TAB">>
    /\ call.arg.before.selectionStart = 3 /\ call.arg.before.selectionEnd = 1
    /\ call.arg.before.cursorPos = 0
    /\ inp.text = <<"e", "eacute">> /\ inp.cursorPos = 2

-----------------------------------------------------------------------------
(* Keys, typed text and clicks delivered to an Input in any state: the      *)
(* Input is focused or not, holds a text with the cursor anywhere in it,    *)
(* with or without a selection, and the host has set all four callbacks or  *)
(* none.                                                                     *)

Payloads == {<<"a", "LF">>, <<"LF">>, <<"TAB", "e">>, <<"e", "acute">>}
Clicks == {NewClickEvent(0, 1), NewClickEvent(6, 1), NewClickEvent(7, 1)}

InitKeys ==
    /\ elem = [n \in Nodes |-> IF n = InputNode THEN NewElement(0, 0, 7, 2)
                                ELSE NewElement(0, 0, 2, 2)]
    /\ \E t \in HeldTexts, m \in {-1} \cup (1..MaxText), v \in Validators,
          cb \in {Nil, "recorder"}, f \in BOOLEAN :
          \E c \in 0..Len(t), s \in -1..Len(t), e \in -1..Len(t) :
              /\ m \in LimitsFor(Len(t))
              /\ (s = -1) = (e = -1)
              /\ inp = [NewInput EXCEPT !.text = t, !.cursorPos = c,
                                        !.selectionStart = s, !.selectionEnd = e,
                                        !.focused = f, !.maxLength = m,
                                        !.validator = v, !.onChange = cb,
                                        !.onSubmit = cb, !.onFocus = cb,
                                        !.onBlur = cb]
    /\ InitButtonIdle
    /\ InitLabelIdle
    /\ call = NoCall
    /\ InitWindowIdle
    /\ InitThreadsIdle
    /\ InitWidgetsIdle

NextKeys ==
    \/ \E k \in Keys : InputDeliver(NewKeyPressEvent(k))
    \/ \E t \in Payloads :
          /\ inp.maxLength > 0 \/ Len(inp.text) + Len(t) <= MaxText
          /\ InputDeliver(NewTextInputEvent(t))
    \/ \E e \in Clicks : InputDeliver(e)

SpecKeys == InitKeys /\ [][NextKeys]_vars

\* a text without its k-th code point, counting from 1
Dropping(t, k) == [j \in 1..(Len(t) - 1) |-> IF j < k THEN t[j] ELSE t[j + 1]]

\* the last call delivered this key to the Input
KeyDelivered(key) ==
    /\ call.op = "HandleEvent" /\ call.arg.event.type = EventTypeKeyPress
    /\ call.arg.event.Key = key

\* C21: Backspace/Delete on a focused Input with no selection: Backspace
\* with cursorPos > 0 removes exactly the code point at index cursorPos-1
\* and decrements cursorPos by one, and with cursorPos = 0 leaves text and
\* cursorPos unchanged; Delete with cursorPos < len(text) removes exactly
\* the code point at index cursorPos and leaves cursorPos unchanged, and at
\* the end of the text leaves the text unchanged; with a selection either
\* key deletes the selection instead; both keys report the event consumed.
C21_BackspaceDelete ==
    ((KeyDelivered("KeyBackspace") \/ KeyDelivered("KeyDelete"))
        /\ call.arg.before.focused) =>
        LET b == call.arg.before
            c == b.cursorPos
        IN  /\ call.res = TRUE
            /\ IF Selected(b)
               THEN inp.text = Base(b) /\ inp.cursorPos = Lo(b) /\ ~Selected(inp)
               ELSE IF KeyDelivered("KeyBackspace") /\ c > 0
               THEN inp.text = Dropping(b.text, c) /\ inp.cursorPos = c - 1
               ELSE IF KeyDelivered("KeyDelete") /\ c < Len(b.text)
               THEN inp.text = Dropping(b.text, c + 1) /\ inp.cursorPos = c
               ELSE inp.text = b.text /\ inp.cursorPos = c

\* Backspace in the middle of a text took the code point before the cursor
C21_Witness ==
    /\ KeyDelivered("KeyBackspace") /\ call.arg.before.focused
    /\ ~Selected(call.arg.before)
    /\ call.arg.before.text = <<"e", "eacute", "TAB">> /\ call.arg.before.cursorPos = 2
    /\ inp.text = <<"e", "TAB">> /\ inp.cursorPos = 1

\* Delete in the middle of a text took the code point at the cursor
C21_DeleteWitness ==
    /\ KeyDelivered("KeyDelete") /\ call.arg.before.focused
    /\ ~Selected(call.arg.before)
    /\ call.arg.before.text = <<"e", "eacute", "TAB">> /\ call.arg.before.cursorPos = 1
    /\ inp.text = <<"e", "TAB">> /\ inp.cursorPos = 1

\* Delete with a selection took the selection and not the code point at
\* the cursor
C21_SelectionWitness ==
    /\ KeyDelivered("KeyDelete") /\ call.arg.before.focused
    /\ call.arg.before.text = <<"e", "eacute", "TAB">> /\ call.arg.before.cursorPos = 0
    /\ call.arg.before.selectionStart = 3 /\ call.arg.before.selectionEnd = 1
    /\ inp.text = <<"e">> /\ inp.cursorPos = 1

\* the keys the Input acts on (input.go:338-387)
OwnedKeys == {"KeyBackspace", "KeyDelete", "KeyArrowLeft", "KeyArrowRight", "KeyEnter"}

\* the last call left the Input as it found it, fired nothing and reported
\* the event unconsumed
Ignored == call.res = FALSE /\ inp = call.arg.before /\ call.log = <<>>

\* C22: the Input ignores keyboard input it does not own: a KeyPress or
\* TextInput event delivered while the Input is unfocused, and a KeyPress
\* with any key other than Backspace, Delete, ArrowLeft, ArrowRight or Enter
\* while focused, is reported unconsumed and leaves text, cursorPos,
\* selection and focused unchanged with no callback fired; Enter while
\* focused invokes onSubmit once with the current text and changes no state.
C22_IgnoresUnownedInput ==
    /\ (/\ call.op = "HandleEvent"
        /\ call.arg.event.type \in {EventTypeKeyPress, EventTypeTextInput}
        /\ ~call.arg.before.focused) => Ignored
    /\ (/\ call.op = "HandleEvent" /\ call.arg.event.type = EventTypeKeyPress
        /\ call.arg.before.focused
        /\ call.arg.event.Key \notin OwnedKeys) => Ignored
    /\ (KeyDelivered("KeyEnter") /\ call.arg.before.focused) =>
          /\ inp = call.arg.before
          /\ call.log = IF inp.onSubmit # Nil
                        THEN <<Entry("onSubmit", InputNode, 0, 0, call.arg.before.text)>>
                        ELSE <<>>

\* Backspace reached an unfocused Input whose cursor had a code point before
\* it, and the host would have heard of a change
C22_Witness ==
    /\ KeyDelivered("KeyBackspace") /\ ~call.arg.before.focused
    /\ call.arg.before.cursorPos > 0 /\ call.arg.before.onChange # Nil
    /\ call.res = FALSE /\ inp.text = call.arg.before.text

\* text was typed at an unfocused Input that had room for it
C22_TypedWitness ==
    /\ call.op = "HandleEvent" /\ call.arg.event.type = EventTypeTextInput
    /\ ~call.arg.before.focused /\ call.arg.before.maxLength = -1
    /\ call.arg.before.validator = Nil /\ call.arg.event.Text = <<"TAB", "e">>
    /\ call.res = FALSE

\* a key the Input does not act on reached it while it was focused
C22_OtherKeyWitness ==
    KeyDelivered("KeyA") /\ call.arg.before.focused /\ call.res = FALSE

\* Enter reached a focused Input whose host listens for submissions
C22_EnterWitness ==
    /\ KeyDelivered("KeyEnter") /\ call.arg.before.focused
    /\ call.arg.before.text = <<"a", "e">>
    /\ call.log = <<Entry("onSubmit", InputNode, 0, 0, <<"a", "e">>)>>

\* the last call delivered typed text to a focused Input
TextDelivered ==
    /\ call.op = "HandleEvent" /\ call.arg.event.type = EventTypeTextInput
    /\ call.arg.before.focused

\* a payload without its control characters other than tab
Kept(payload) == SelectSeq(payload, LAMBDA r : ~IsControl(r) \/ r = "TAB")

\* what an Input in state b takes of the kept payload p: nothing when the
\* validator refuses, else as much of its NFC form as the limit leaves room for
Taken(b, p) == IF Refused(b, p) THEN <<>> ELSE Incoming(b, p)

\* C23 (as the code has it): a TextInput event delivered to a focused Input
\* is always reported consumed, even when nothing is inserted (payload empty
\* after filtering, no room under maxLength, or validator rejection); the
\* inserted text never contains a control character other than tab, and it
\* is the NFC form of the payload without its control characters other than
\* tab, in the original order: all of it when neither a limit nor a
\* validator intervenes, its leading code points that fit otherwise.
C23_TypedTextInsertedNormalized ==
    TextDelivered =>
        LET b == call.arg.before
            p == Kept(call.arg.event.Text)
            x == Taken(b, p)
        IN  /\ call.res = TRUE
            /\ IF p = <<>> THEN inp = b
               ELSE inp.text = InsertAt(Base(b), At(b), x)
            /\ \A j \in 1..Len(x) : ~IsControl(x[j]) \/ x[j] = "TAB"
            /\ (b.maxLength <= 0 /\ b.validator = Nil) => x = NFC(p)

\* C23 (as stated): a TextInput event delivered to a focused Input is always
\* reported consumed, and all non-control characters of the payload are
\* inserted in their original order; read here for the Inputs on which
\* neither a limit nor a validator can hold anything back.
C23_TypedTextInsertedAsTyped ==
    (TextDelivered /\ call.arg.before.maxLength <= 0
        /\ call.arg.before.validator = Nil) =>
        LET b == call.arg.before
            p == Kept(call.arg.event.Text)
        IN  /\ call.res = TRUE
            /\ inp.text = IF p = <<>> THEN b.text ELSE InsertAt(Base(b), At(b), p)

\* a payload with a line feed was typed in the middle of a text: the letter
\* went in, the line feed did not
C23_Witness ==
    /\ TextDelivered /\ call.arg.event.Text = <<"a", "LF">>
    /\ call.arg.before.text = <<"e">> /\ call.arg.before.cursorPos = 1
    /\ ~Selected(call.arg.before)
    /\ call.res = TRUE /\ inp.text = <<"e", "a">>

\* a tab was typed and went in
C23_TabWitness ==
    /\ TextDelivered /\ call.arg.event.Text = <<"TAB", "e">>
    /\ call.arg.before.text = <<>> /\ inp.text = <<"TAB", "e">>

\* the three ways of inserting nothing: only control characters, no room,
\* and a refusing validator; each consumed
C23_NothingKeptWitness ==
    /\ TextDelivered /\ call.arg.event.Text = <<"LF">> /\ call.res = TRUE
    /\ Selected(call.arg.before) /\ inp = call.arg.before
C23_NoRoomWitness ==
    /\ TextDelivered /\ call.arg.event.Text = <<"TAB", "e">> /\ call.res = TRUE
    /\ call.arg.before.maxLength = Len(call.arg.before.text)
    /\ ~Selected(call.arg.before) /\ inp.text = call.arg.before.text
C23_RefusedWitness ==
    /\ TextDelivered /\ call.arg.event.Text = <<"a", "LF">> /\ call.res = TRUE
    /\ call.arg.before.validator # Nil /\ call.arg.before.maxLength = -1
    /\ ~Selected(call.arg.before) /\ inp.text = call.arg.before.text

\* a decomposed pair was typed and one composed code point went in
C23_ComposedWitness ==
    /\ TextDelivered /\ call.arg.event.Text = <<"e", "acute">>
    /\ call.arg.before.text = <<>> /\ call.arg.before.maxLength = -1
    /\ inp.text = <<"eacute">>

\* the last call delivered a Click to the Input; inside tells whether its
\* point lay within the Input's bounds
ClickDelivered(inside) ==
    /\ call.op = "HandleEvent" /\ call.arg.event.type = EventTypeClick
    /\ ContainsPoint(InputNode, call.arg.event.X, call.arg.event.Y) = inside

\* C24: click outside blurs: when a Click whose point lies outside a focused
\* Input's bounds is dispatched to that Input (directly through its
\* HandleEvent, which is also what a parent calls to offer the event to it),
\* the Input becomes unfocused, its selection is cleared, onBlur is invoked
\* once, and the event is reported unconsumed.
C24_ClickOutsideBlurs ==
    (ClickDelivered(FALSE) /\ call.arg.before.focused) =>
        /\ ~inp.focused
        /\ ~Selected(inp)
        /\ call.log = IF inp.onBlur # Nil
                      THEN <<Entry("onBlur", InputNode, 0, 0, Nil)>> ELSE <<>>
        /\ call.res = FALSE

\* what holds instead: the bounds gate of HandleEvent turns the Click away
\* before any handler runs, so the Input is left as it was
C24_ClickOutsideNeverArrives == ClickDelivered(FALSE) => Ignored

\* a focused Input with a selection and a listening host was clicked outside
\* its bounds and is still focused
C24_StillFocused ==
    /\ ClickDelivered(FALSE) /\ call.arg.before.focused
    /\ Selected(call.arg.before) /\ call.arg.before.onBlur # Nil
    /\ inp.focused /\ Selected(inp) /\ call.log = <<>>

\* C25: click inside focuses: after a Click within an Input's bounds is
\* dispatched to it, focused is true, onFocus has been invoked exactly once
\* if the Input was previously unfocused and not at all if it was already
\* focused, the selection is cleared, and the event is reported consumed.
C25_ClickInsideFocuses ==
    ClickDelivered(TRUE) =>
        /\ inp.focused
        /\ call.log = IF ~call.arg.before.focused /\ inp.onFocus # Nil
                      THEN <<Entry("onFocus", InputNode, 0, 0, Nil)>> ELSE <<>>
        /\ inp.selectionStart = -1 /\ inp.selectionEnd = -1
        /\ call.res = TRUE

\* an unfocused Input with a selection was clicked and its host heard of
\* the focus once
C25_Witness ==
    /\ ClickDelivered(TRUE) /\ ~call.arg.before.focused
    /\ Selected(call.arg.before)
    /\ inp.focused /\ call.log = <<Entry("onFocus", InputNode, 0, 0, Nil)>>

\* a focused Input whose host listens was clicked and the host heard nothing
C25_AlreadyFocusedWitness ==
    /\ ClickDelivered(TRUE) /\ call.arg.before.focused
    /\ Selected(call.arg.before) /\ inp.onFocus # Nil
    /\ inp.focused /\ call.log = <<>> /\ call.res = TRUE

-----------------------------------------------------------------------------
(* A Button of bounds [1,3) x [1,3) whose host enables and disables it,     *)
(* sets and unsets its callbacks, clicks and moves the pointer inside and   *)
(* outside it.                                                              *)

ButtonPoints == {<<1, 1>>, <<2, 2>>, <<0, 1>>, <<3, 1>>}

InitButton ==
    /\ elem = [n \in Nodes |-> IF n = ButtonNode THEN NewElement(1, 1, 2, 2)
                                ELSE NewElement(0, 0, 2, 2)]
    /\ btn = NewButton
    /\ inp = NewInput
    /\ InitLabelIdle
    /\ call = NoCall
    /\ InitWindowIdle
    /\ InitThreadsIdle
    /\ InitWidgetsIdle

NextButton ==
    \/ \E enabled \in BOOLEAN : ButtonSetEnabled(enabled)
    \/ \E cb \in CallbackKinds : ButtonSetOnClick(cb)
    \/ \E cb \in CallbackKinds : ButtonSetOnHover(cb)
    \/ \E cb \in CallbackKinds : ButtonSetOnUnhover(cb)
    \/ \E pt \in ButtonPoints : ButtonDeliver(NewClickEvent(pt[1], pt[2]))
    \/ \E pt \in ButtonPoints : ButtonDeliver(NewMouseMoveEvent(pt[1], pt[2]))

SpecButton == InitButton /\ [][NextButton]_vars

\* the last call delivered an event of this type to the Button; inside
\* tells whether its point lay within the Button's bounds
PointerDelivered(type, inside) ==
    /\ call.op = "HandleEvent" /\ call.node = ButtonNode
    /\ call.arg.arg.type = type
    /\ ContainsPoint(ButtonNode, call.arg.arg.X, call.arg.arg.Y) = inside

\* the entries of the last call's log that are invocations of this callback
Invocations(which) == SelectSeq(call.log, LAMBDA e : e.ev = which)

\* C26: a disabled Button never fires onClick: in any sequence of
\* SetEnabled calls and Click/MouseMove events, no Click delivered while
\* enabled is false invokes onClick, and such a Click (like a MouseMove
\* while disabled) is reported unconsumed and leaves the button state
\* unchanged with no onHover/onUnhover fired.
C26_DisabledIgnoresPointer ==
    (call.op = "HandleEvent" /\ call.node = ButtonNode /\ ~call.arg.before.enabled) =>
        /\ Invocations("onClick") = <<>>
        /\ Invocations("onHover") = <<>> /\ Invocations("onUnhover") = <<>>
        /\ call.res = FALSE
        /\ btn.state = call.arg.before.state

\* a disabled Button whose host listens for clicks was clicked inside
C26_Witness ==
    /\ PointerDelivered(EventTypeClick, TRUE) /\ ~call.arg.before.enabled
    /\ call.arg.before.onClick # Nil
    /\ btn.state = ButtonStateDisabled /\ call.log = <<>>

\* the pointer moved onto a disabled Button whose host listens for hovers
C26_MoveWitness ==
    /\ PointerDelivered(EventTypeMouseMove, TRUE) /\ ~call.arg.before.enabled
    /\ call.arg.before.onHover # Nil
    /\ btn.state = ButtonStateDisabled /\ call.res = FALSE

\* the state SetEnabled(enabled) is to leave a Button that was in this state
Enabling(enabled, state) ==
    IF ~enabled THEN ButtonStateDisabled
    ELSE IF state = ButtonStateDisabled THEN ButtonStateNormal ELSE state

\* C27: SetEnabled(false) sets the state to Disabled from any state;
\* SetEnabled(true) sets the state to Normal iff the state was Disabled and
\* otherwise leaves Normal, Hover or Pressed untouched; SetEnabled(false)
\* followed by SetEnabled(true) therefore always ends in Normal.  The calls
\* are those of the host and those a callback makes while the Button is in
\* the state the callback observed.
C27_SetEnabledTransitions ==
    [][/\ call'.op = "SetEnabled" =>
            /\ btn'.enabled = call'.arg.arg
            /\ btn'.state = Enabling(call'.arg.arg, btn.state)
            /\ (call.op = "SetEnabled" /\ ~call.arg.arg /\ call'.arg.arg) =>
                   btn'.state = ButtonStateNormal
       /\ (call'.op = "HandleEvent" /\ call'.node = ButtonNode) =>
            \A k \in 2..Len(call'.log) :
                call'.log[k].ev = "SetEnabled" =>
                    call'.log[k].ret =
                        Enabling(call'.log[k].idx = 1, call'.log[k - 1].ret)]_vars

\* SetEnabled(true) on a hovered Button left it hovered
C27_Witness ==
    /\ call.op = "SetEnabled" /\ call.arg.arg = TRUE
    /\ call.arg.before.state = ButtonStateHover /\ btn.state = ButtonStateHover

\* SetEnabled(true) on a disabled Button made it Normal
C27_ReenabledWitness ==
    /\ call.op = "SetEnabled" /\ call.arg.arg = TRUE
    /\ call.arg.before.state = ButtonStateDisabled /\ btn.state = ButtonStateNormal

\* SetEnabled(false) on a hovered Button made it Disabled
C27_DisabledWitness ==
    /\ call.op = "SetEnabled" /\ call.arg.arg = FALSE
    /\ call.arg.before.state = ButtonStateHover /\ btn.state = ButtonStateDisabled

\* onClick called SetEnabled(true) on the pressed Button, which stayed
\* pressed, and SetEnabled(false), which made it Disabled
C27_PressedWitness ==
    /\ PointerDelivered(EventTypeClick, TRUE)
    /\ call.log = <<Entry("onClick", ButtonNode, 0, 0, ButtonStatePressed),
                    Entry("SetEnabled", ButtonNode, 1, 1, ButtonStatePressed)>>
C27_PressedDisabledWitness ==
    /\ PointerDelivered(EventTypeClick, TRUE)
    /\ call.log = <<Entry("onClick", ButtonNode, 0, 0, ButtonStatePressed),
                    Entry("SetEnabled", ButtonNode, 1, 0, ButtonStateDisabled)>>

\* C28: a Click within the bounds of an enabled Button sets the state to
\* Pressed, then invokes onClick exactly once (the callback observes state
\* Pressed), then sets the state to Normal and reports the event consumed,
\* whatever the prior state (Normal or Hover); a Click outside the bounds
\* changes nothing and is unconsumed; consequently the state is never
\* Pressed after any HandleEvent call has returned.
C28_ClickSequence ==
    /\ (PointerDelivered(EventTypeClick, TRUE) /\ call.arg.before.enabled) =>
          /\ Invocations("onClick") =
                 IF call.arg.before.onClick # Nil
                 THEN <<Entry("onClick", ButtonNode, 0, 0, ButtonStatePressed)>>
                 ELSE <<>>
          /\ btn.state = ButtonStateNormal
          /\ call.res = TRUE
    /\ PointerDelivered(EventTypeClick, FALSE) =>
          btn = call.arg.before /\ call.log = <<>> /\ call.res = FALSE
    /\ btn.state # ButtonStatePressed

\* a hovered Button whose host listens for clicks was clicked inside
C28_Witness ==
    /\ PointerDelivered(EventTypeClick, TRUE)
    /\ call.arg.before.state = ButtonStateHover /\ call.arg.before.onClick = "recorder"
    /\ call.log = <<Entry("onClick", ButtonNode, 0, 0, ButtonStatePressed)>>
    /\ btn.state = ButtonStateNormal /\ call.res = TRUE

\* a hovered Button was clicked outside its bounds
C28_OutsideWitness ==
    /\ PointerDelivered(EventTypeClick, FALSE)
    /\ call.arg.before.state = ButtonStateHover /\ call.arg.before.onClick # Nil
    /\ btn.state = ButtonStateHover /\ call.res = FALSE

-----------------------------------------------------------------------------
(* The pointer moving over and around a new, enabled Button whose host      *)
(* listens for both hover callbacks; nothing else is done to the Button.    *)

ButtonBounds == {<<1, 1, 2, 2>>, <<0, 0, 3, 1>>, <<2, 1, 1, 3>>}
PointerRange == 0..3

InitHover ==
    /\ \E r \in ButtonBounds :
          elem = [n \in Nodes |-> IF n = ButtonNode THEN NewElement(r[1], r[2], r[3], r[4])
                                   ELSE NewElement(0, 0, 2, 2)]
    /\ btn = [NewButton EXCEPT !.onHover = "recorder", !.onUnhover = "recorder"]
    /\ inp = NewInput
    /\ InitLabelIdle
    /\ call = NoCall
    /\ InitWindowIdle
    /\ InitThreadsIdle
    /\ InitWidgetsIdle

NextHover == \E px \in PointerRange, py \in PointerRange : ButtonDeliver(NewMouseMoveEvent(px, py))

SpecHover == InitHover /\ [][NextHover]_vars

\* C29: for an enabled Button receiving a MouseMove, if the point is inside
\* the bounds and the state is not Hover the state becomes Hover and onHover
\* fires once (event consumed); if the point is outside the bounds and the
\* state is Hover the state becomes Normal and onUnhover fires once (event
\* consumed); in every other case the state is unchanged, no callback fires
\* and the event is unconsumed; in a sequence of MouseMove events only,
\* onHover and onUnhover invocations strictly alternate starting with
\* onHover.
C29_HoverTransitions ==
    (call.op = "HandleEvent" /\ call.arg.arg.type = EventTypeMouseMove
        /\ call.arg.before.enabled) =>
        LET inside == ContainsPoint(ButtonNode, call.arg.arg.X, call.arg.arg.Y)
            was == call.arg.before.state = ButtonStateHover
        IN  /\ (inside /\ ~was) =>
                  /\ btn.state = ButtonStateHover
                  /\ call.log = <<Entry("onHover", ButtonNode, 0, 0, ButtonStateHover)>>
                  /\ call.res = TRUE
            /\ (~inside /\ was) =>
                  /\ btn.state = ButtonStateNormal
                  /\ call.log = <<Entry("onUnhover", ButtonNode, 0, 0, ButtonStateNormal)>>
                  /\ call.res = TRUE
            /\ (inside = was) =>
                  btn = call.arg.before /\ call.log = <<>> /\ call.res = FALSE
            /\ Invocations("onHover") # <<>> => call.arg.heard # "onHover"
            /\ Invocations("onUnhover") # <<>> => call.arg.heard = "onHover"

\* the pointer moved within a hovered Button
C29_Witness ==
    /\ PointerDelivered(EventTypeMouseMove, TRUE)
    /\ call.arg.before.state = ButtonStateHover
    /\ btn.state = ButtonStateHover /\ call.log = <<>> /\ call.res = FALSE

\* the pointer came back onto a Button it had left
C29_AgainWitness ==
    /\ PointerDelivered(EventTypeMouseMove, TRUE) /\ call.arg.heard = "onUnhover"
    /\ call.log = <<Entry("onHover", ButtonNode, 0, 0, ButtonStateHover)>>

\* the pointer left a hovered Button
C29_LeaveWitness ==
    /\ PointerDelivered(EventTypeMouseMove, FALSE) /\ call.arg.heard = "onHover"
    /\ call.log = <<Entry("onUnhover", ButtonNode, 0, 0, ButtonStateNormal)>>
    /\ btn.state = ButtonStateNormal /\ call.res = TRUE

-----------------------------------------------------------------------------
(* wrapText on Labels holding every text of up to MaxLabelText glyphs, in   *)
(* each font, for the wrap widths up to MaxWrapWidth.                       *)

LabelTexts == UNION {[1..n -> Glyphs] : n \in 0..MaxLabelText}
WrapWidths == 0..MaxWrapWidth

InitWrap ==
    /\ elem = [n \in Nodes |-> NewElement(0, 0, 2, 2)]
    /\ \E t \in LabelTexts, f \in LabelFonts :
          lbl = [NewLabel EXCEPT !.text = t, !.font = f, !.wordWrap = TRUE]
    /\ inp = NewInput
    /\ InitButtonIdle
    /\ call = NoCall
    /\ InitWindowIdle
    /\ InitThreadsIdle
    /\ InitWidgetsIdle

NextWrap == \E w \in WrapWidths : LabelWrapText(w)

SpecWrap == InitWrap /\ [][NextWrap]_vars

\* line is one whole word of text: a run of glyphs none of which is space,
\* with space or an end of the text on either side
IsWordOf(line, text) ==
    /\ line # <<>>
    /\ \A j \in 1..Len(line) : ~IsSpace(line[j])
    /\ \E from \in 1..Len(text) :
          LET to == from + Len(line) - 1
          IN  /\ to <= Len(text)
              /\ SubSeq(text, from, to) = line
              /\ from = 1 \/ IsSpace(text[from - 1])
              /\ to = Len(text) \/ IsSpace(text[to + 1])

\* C30: for every text, per-glyph advances and wrap width > 0, every line
\* produced by wrapText either has measured width <= the wrap width or
\* consists of exactly one word (never split) that is itself wider than the
\* limit.
C30_WrapBound ==
    (call.op = "wrapText" /\ call.arg.maxWidth > 0) =>
        \A k \in 1..Len(call.res) :
            \/ measureTextWidth(call.res[k], lbl.font) <= call.arg.maxWidth
            \/ IsWordOf(call.res[k], call.arg.text)

\* two words went on the first line and the third on the next
C30_Witness ==
    /\ call.op = "wrapText" /\ call.arg.text = <<"a", " ", "a", "LF", "W">>
    /\ lbl.font = "proportional" /\ call.arg.maxWidth = 3
    /\ call.res = << <<"a", " ", "a">>, <<"W">> >>

\* a word wider than the limit got a line of its own, whole
C30_WideWordWitness ==
    /\ call.op = "wrapText" /\ call.arg.text = <<"a", " ", "W", "a", " ">>
    /\ lbl.font = "proportional" /\ call.arg.maxWidth = 2
    /\ call.res = << <<"a">>, <<"W", "a">> >>

-----------------------------------------------------------------------------
(* Properties of every state an Input reaches from NewInput through its     *)
(* setters, Focus and Blur and the events dispatched to it (SpecInput).     *)

\* C32: once maxLength is set to a value L > 0, after any subsequent
\* sequence of SetText, SetMaxLength(L' > 0), Click, KeyPress and TextInput
\* operations the code-point length of text never exceeds the current
\* maxLength; a maxLength <= 0 imposes no limit: SetText then stores the
\* whole (normalized) text it is given.
C32_LengthCap ==
    /\ inp.maxLength > 0 => Len(inp.text) <= inp.maxLength
    /\ (call.op = "SetText" /\ inp.maxLength <= 0 /\ Accepts(NFC(call.arg))) =>
           inp.text = NFC(call.arg)

\* text was typed into an Input that was full under its limit
C32_Witness ==
    /\ call.op = "HandleEvent" /\ call.arg.type = EventTypeTextInput
    /\ inp.focused /\ inp.maxLength = 2 /\ Len(inp.text) = 2 /\ call.res = TRUE

\* a longer text was set under a limit of one
C32_SetTextWitness ==
    /\ call.op = "SetText" /\ Len(NFC(call.arg)) = 3
    /\ inp.maxLength = 1 /\ Len(inp.text) = 1

\* the limit was lowered under a text that was longer
C32_LoweredWitness ==
    /\ call.op = "SetMaxLength" /\ call.arg = 1 /\ Len(inp.text) = 1
    /\ inp.cursorPos = 1

\* without a limit the text grew to the longest the model types
C32_UnlimitedWitness ==
    /\ call.op = "HandleEvent" /\ call.arg.type = EventTypeTextInput
    /\ inp.maxLength = 0 /\ Len(inp.text) = MaxText

\* C39: selection is unreachable through the public surface: in every state
\* reachable from NewInput through the public setters, Focus/Blur and
\* dispatched Click/KeyPress/TextInput/Focus/Blur events, selectionStart =
\* selectionEnd = -1, so hasSelection is always false and deleteSelection
\* never changes the text.
C39_SelectionUnreachable ==
    /\ inp.selectionStart = -1 /\ inp.selectionEnd = -1
    /\ ~hasSelection(inp)
    /\ deleteSelection(inp) = inp

\* Backspace, which asks hasSelection first, took one code point of a
\* longer text
C39_Witness ==
    /\ call.op = "HandleEvent" /\ call.arg.type = EventTypeKeyPress
    /\ call.arg.Key = "KeyBackspace" /\ call.res = TRUE
    /\ Len(inp.text) = 2 /\ inp.cursorPos = 1
    /\ inp.selectionStart = -1 /\ inp.selectionEnd = -1

\* text was typed, which asks hasSelection before inserting, into the middle
\* of a text
C39_TypedWitness ==
    /\ call.op = "HandleEvent" /\ call.arg.type = EventTypeTextInput
    /\ call.res = TRUE /\ call.log # <<>>
    /\ 0 < inp.cursorPos /\ inp.cursorPos < Len(inp.text)
    /\ ~hasSelection(inp)

-----------------------------------------------------------------------------
(* Properties of every state a Button reaches (SpecButton).                 *)

\* C33: in every state reachable through SetEnabled calls and
\* Click/MouseMove events, including runs in which the onClick, onHover or
\* onUnhover callback itself calls SetEnabled on the same button, enabled is
\* false iff the state is Disabled.
C33_EnabledIffNotDisabled == ~btn.enabled <=> btn.state = ButtonStateDisabled

\* what holds instead: an enabled Button is never Disabled, and a Button that
\* is not enabled is Disabled or, after an onClick that disabled it, Normal
C33_DisabledOrNormalAfterClick ==
    /\ btn.enabled => btn.state # ButtonStateDisabled
    /\ ~btn.enabled => btn.state \in {ButtonStateDisabled, ButtonStateNormal}
    /\ (/\ ~btn.enabled /\ btn.state = ButtonStateNormal
        /\ call.op = "HandleEvent" /\ call.arg.before.enabled) =>
           /\ PointerDelivered(EventTypeClick, TRUE)
           /\ call.arg.before.onClick = "disable"

\* onClick called SetEnabled(false); the click left the Button Normal and
\* not enabled
C33_NormalWhileDisabled ==
    /\ PointerDelivered(EventTypeClick, TRUE) /\ call.arg.before.enabled
    /\ call.log = <<Entry("onClick", ButtonNode, 0, 0, ButtonStatePressed),
                    Entry("SetEnabled", ButtonNode, 1, 0, ButtonStateDisabled)>>
    /\ ~btn.enabled /\ btn.state = ButtonStateNormal

\* onHover called SetEnabled(false) and the Button stayed Disabled
C33_DisabledInHover ==
    /\ PointerDelivered(EventTypeMouseMove, TRUE) /\ call.arg.before.enabled
    /\ call.arg.before.onHover = "disable"
    /\ ~btn.enabled /\ btn.state = ButtonStateDisabled

-----------------------------------------------------------------------------
(* Clicks along an Input as wide as an int allows, from the least x on,     *)
(* that holds any of a few texts in a fixed-width or a proportional font.   *)

CaretTexts == {<<>>, <<"a">>, <<"e", "a">>, <<"a", "eacute", "e">>, <<"acute", "a", "e">>}
CaretFonts == Fonts \cup {Proportional}
ClickXs == MinInt..(-2)

InitCaret ==
    /\ elem = [n \in Nodes |-> IF n = InputNode THEN NewElement(MinInt, 0, MaxInt, 2)
                                ELSE NewElement(0, 0, 2, 2)]
    /\ \E t \in CaretTexts, f \in CaretFonts, focused \in BOOLEAN :
          \E c \in 0..Len(t) :
              inp = [NewInput EXCEPT !.text = t, !.cursorPos = c, !.font = f,
                                     !.focused = focused]
    /\ InitButtonIdle
    /\ InitLabelIdle
    /\ call = NoCall
    /\ InitWindowIdle
    /\ InitThreadsIdle
    /\ InitWidgetsIdle

NextCaret == \E cx \in ClickXs : InputDeliver(NewClickEvent(cx, 1))

SpecCaret == InitCaret /\ [][NextCaret]_vars

\* the sum of the widths of the first p code points of an Input's text
RECURSIVE WidthBefore(_, _)
WidthBefore(b, p) ==
    IF p = 0 THEN 0 ELSE WidthBefore(b, p - 1) + b.font[b.text[p]]

\* where a click at offset r from the padded left edge is to put the caret
Caret(b, r) ==
    IF r <= 0 THEN 0
    ELSE LET past == {p \in 0..(Len(b.text) - 1) :
                         WidthBefore(b, p) + (b.font[b.text[p + 1]] \div 2) > r}
         IN  IF past = {} THEN Len(b.text)
             ELSE CHOOSE p \in past : \A q \in past : p <= q

C37_PaddingWitness ==
    /\ ClickDelivered(TRUE) /\ call.arg.event.X = MinInt + Padding
    /\ call.arg.before.cursorPos = 3 /\ inp.cursorPos = 0

\* a click past all the text put the caret at its end
C37_EndWitness ==
    /\ ClickDelivered(TRUE) /\ call.arg.event.X = MinInt + Padding + 1
    /\ call.arg.before.text = <<"e", "a">> /\ call.arg.before.font = Face(1)
    /\ call.arg.before.cursorPos = 0 /\ inp.cursorPos = 2

\* a click right of the padding in an empty Input
C37_EmptyWitness ==
    /\ ClickDelivered(TRUE) /\ call.arg.event.X = MinInt + Padding + 1
    /\ call.arg.before.text = <<>> /\ inp.cursorPos = 0

-----------------------------------------------------------------------------
(* Polling the window's renderer (SpecLifecycle).                           *)

\* C38: StubRenderer.PollEvents returns an empty batch while the renderer is
\* not running; while running it returns all currently queued events in
\* queue order and removes them from the queue, so across any sequence of
\* polls every queued event is delivered exactly once and never in two
\* batches: what the queue holds after a poll is at most the batch of events
\* generated during that poll.
C38_QueueDrain ==
    [][call'.op = "PollEvents" =>
           IF ~rend.running
           THEN call'.res = <<>> /\ rend' = rend
           ELSE /\ call'.res = rend.events
                /\ rend'.events \in {<<>>, TestEvents}
                /\ rend'.running]_vars

\* a poll delivered two queued batches, in order, and left the queue empty
C38_Witness ==
    /\ call.op = "PollEvents" /\ call.res = TestEvents \o TestEvents
    /\ rend.running /\ rend.events = <<>>

\* a poll of a closed renderer delivered nothing and left the queue as it was
C38_ClosedWitness ==
    /\ call.op = "PollEvents" /\ ~rend.running
    /\ call.res = <<>> /\ rend.events = TestEvents

\* a poll delivered the queue and generated a new batch
C38_StaleWitness ==
    /\ call.op = "PollEvents" /\ call.res = TestEvents \o TestEvents
    /\ rend.events = TestEvents

-----------------------------------------------------------------------------
(* A Label as NewLabel("") leaves it, under every sequence of its setters   *)
(* (SpecLabel).                                                             *)

\* the texts set: empty, one word, two words, two words two spaces apart,
\* two lines, and three words the last of which is the widest
Captions ==
    {<<>>, <<"a">>, <<"a", " ", "a">>, <<"a", " ", " ", "a">>, <<"a", "LF", "W">>,
     <<"a", " ", "a", " ", "a", "a", "a">>}

InitLabel ==
    /\ elem = [n \in Nodes |-> IF n = LabelNode THEN NewElement(0, 0, 0, 0)
                                ELSE NewElement(0, 0, 2, 2)]
    /\ lbl = NewLabel
    /\ inp = NewInput
    /\ InitButtonIdle
    /\ call = NoCall
    /\ InitWindowIdle
    /\ InitThreadsIdle
    /\ InitWidgetsIdle

NextLabel ==
    \/ \E text \in Captions : LabelSetText(text)
    \/ \E font \in LabelFonts : LabelSetFont(font)
    \/ \E color \in Colors : LabelSetColor(color)
    \/ \E alignment \in TextAlignments : LabelSetAlignment(alignment)
    \/ \E enable \in BOOLEAN : LabelSetWordWrap(enable)
    \/ \E enable \in BOOLEAN : LabelSetAutoSize(enable)

SpecLabel == InitLabel /\ [][NextLabel]_vars

\* the size updateSize computes for the label as it is now, from the width
\* it had before the last call
Recomputed == updateSize(lbl, call.arg.size[1])

\* C31: while auto-size is enabled, each of SetText, SetFont, SetWordWrap and
\* SetAutoSize(true) leaves the label's size equal to the freshly recomputed
\* size for the current text, font and word-wrap flag ((0,0) for empty text
\* or no font; one-line width and line height without wrap; widest line and
\* lines x line-height with wrap), while SetColor and SetAlignment never
\* change the size.
C31_SettersRecompute ==
    /\ call.op \in {"SetText", "SetFont", "SetWordWrap"} /\ lbl.autoSize
           => SizeOf(LabelNode) = Recomputed
    /\ call.op = "SetAutoSize" /\ call.arg.arg => SizeOf(LabelNode) = Recomputed
    /\ call.op \in {"SetColor", "SetAlignment"} => SizeOf(LabelNode) = call.arg.size

\* what holds of the setters: SetText, SetFont and SetAutoSize(true)
\* recompute, in each of the three cases of updateSize; SetColor,
\* SetAlignment and SetWordWrap leave the size as it was and call nothing
C31_AllButSetWordWrap ==
    /\ call.op \in {"SetText", "SetFont"} /\ lbl.autoSize
           => SizeOf(LabelNode) = Recomputed
    /\ call.op = "SetAutoSize" /\ call.arg.arg => SizeOf(LabelNode) = Recomputed
    /\ call.op \in {"SetText", "SetFont", "SetAutoSize"}
           => /\ lbl.font = Nil \/ lbl.text = <<>> => Recomputed = <<0, 0>>
              /\ lbl.font # Nil /\ lbl.text # <<>> /\ ~lbl.wordWrap
                     => Recomputed = <<measureTextWidth(lbl.text, lbl.font),
                                       LineHeight(lbl.font)>>
    /\ call.op \in {"SetColor", "SetAlignment", "SetWordWrap"}
           => SizeOf(LabelNode) = call.arg.size /\ call.log = <<>>

\* SetWordWrap(true) left an auto-sized label of two words two spaces apart
\* with its one-line size, wider than its one wrapped line
C31_StaleAfterWrapOn ==
    /\ call.op = "SetWordWrap" /\ call.arg.arg /\ lbl.autoSize /\ lbl.font = "fixed"
    /\ lbl.text = <<"a", " ", " ", "a">>
    /\ SizeOf(LabelNode) = <<4, LineHeight(lbl.font)>>
    /\ Recomputed = <<3, LineHeight(lbl.font)>>

\* SetText recomputed the size of a wrapped label: two lines
C31_WrappedWitness ==
    /\ call.op = "SetText" /\ lbl.autoSize /\ lbl.wordWrap /\ lbl.font = "proportional"
    /\ lbl.text = <<"a", " ", "a", " ", "a", "a", "a">> /\ call.arg.size[1] = 3
    /\ SizeOf(LabelNode) = <<3, 2 * LineHeight(lbl.font)>>

-----------------------------------------------------------------------------
(* An auto-sized, word-wrapping Label whose text is set again and again,    *)
(* and whose Element is given a width in between (SpecResize).              *)

InitResize ==
    /\ elem = [n \in Nodes |-> IF n = LabelNode THEN NewElement(0, 0, 0, 0)
                                ELSE NewElement(0, 0, 2, 2)]
    /\ \E font \in LabelFonts : lbl = [NewLabel EXCEPT !.font = font, !.wordWrap = TRUE]
    /\ inp = NewInput
    /\ InitButtonIdle
    /\ call = NoCall
    /\ InitWindowIdle
    /\ InitThreadsIdle
    /\ InitWidgetsIdle

NextResize ==
    \/ \E text \in Captions : LabelSetText(text)
    \/ \E w \in WrapWidths : SetSize(LabelNode, w, LineHeight(lbl.font))

SpecResize == InitResize /\ [][NextResize]_vars

\* the step is SetText with the text the call before it set
SameTextAgain ==
    call.op = "SetText" /\ call'.op = "SetText" /\ call'.arg.arg = call.arg.arg

\* C40: with auto-size and word-wrap enabled and the font unchanged, SetText
\* with the same text twice in a row leaves the label's size after the
\* second call equal to its size after the first, for every text and
\* starting width, including texts with a word wider than the wrap width.
C40_SetTextTwice ==
    [][SameTextAgain
           => elem'[LabelNode].width = elem[LabelNode].width
              /\ elem'[LabelNode].height = elem[LabelNode].height]_vars

\* the width the first of the two calls wrapped at
FirstWrapWidth == IF call.arg.size[1] <= 0 THEN DefaultWrapWidth ELSE call.arg.size[1]

\* every word of the label's text is at most as wide as that
WordsFit ==
    \A k \in 1..Len(Fields(lbl.text)) :
        measureTextWidth(Fields(lbl.text)[k], lbl.font) <= FirstWrapWidth

\* what holds: the second call changes nothing when every word of the text
\* fitted the width the first call wrapped at
C40_SameWhenWordsFit ==
    [][(SameTextAgain /\ WordsFit) => elem'[LabelNode] = elem[LabelNode]]_vars

\* after the second SetText the label is two lines high and as wide as its
\* widest word, where the first SetText had made it three lines high
C40_LinesMerged ==
    /\ call.op = "SetText" /\ call.arg.before.text = lbl.text /\ lbl.font = "fixed"
    /\ lbl.text = <<"a", " ", "a", " ", "a", "a", "a">>
    /\ call.arg.size = <<3, 3 * LineHeight(lbl.font)>>
    /\ SizeOf(LabelNode) = <<3, 2 * LineHeight(lbl.font)>>

-----------------------------------------------------------------------------
(* Three enabled Buttons side by side under one parent, the pointer moved   *)
(* and clicked along the row through the parent's HandleEvent (SpecRow).    *)

RowParent == Root
RowNodes == <<"A", "B", "C">>

\* the k-th widget of a row is 2 wide and 1 high, at x = 2 * (k - 1)
RowElement(k) == [NewElement(2 * (k - 1), 0, 2, 1) EXCEPT !.parent = RowParent]

\* the nodes of a sequence of nodes
Members(nodes) == {nodes[k] : k \in 1..Len(nodes)}

\* a row of the nodes as AddChild composes it, under a parent as wide as an
\* int allows; a node that is not of the row has no parent
RowOf(nodes) ==
    [n \in Nodes |->
        IF n = RowParent THEN [NewElement(0, 0, MaxInt, 1) EXCEPT !.children = nodes]
        ELSE IF n \in Members(nodes)
        THEN RowElement(CHOOSE k \in 1..Len(nodes) : nodes[k] = n)
        ELSE NewElement(0, 0, 2, 2)]

\* the points of the row, the last of them beside every widget
RowXs == 0..(2 * Len(RowNodes))
\* on the row and below it
RowYs == 0..1

InitRow ==
    /\ elem = RowOf(RowNodes)
    /\ wid = [n \in Members(RowNodes) |-> NewButton]
    /\ inp = NewInput
    /\ InitButtonIdle
    /\ InitLabelIdle
    /\ call = NoCall
    /\ InitWindowIdle
    /\ InitThreadsIdle

NextRow ==
    \/ \E px \in RowXs, py \in RowYs :
           WidgetsDeliver(RowParent, NewMouseMoveEvent(px, py))
    \/ \E px \in RowXs, py \in RowYs : WidgetsDeliver(RowParent, NewClickEvent(px, py))

SpecRow == InitRow /\ [][NextRow]_vars

\* the Buttons in state Hover
Hovered == {n \in DOMAIN wid : wid[n].state = ButtonStateHover}

\* the last call was the parent's HandleEvent with a MouseMove
MovedOverRow == call.op = "HandleEvent" /\ call.arg.event.type = EventTypeMouseMove

\* C34: for a parent with two or more enabled Button children of pairwise
\* disjoint bounds, after every MouseMove dispatched through the parent's
\* HandleEvent at most one Button is in state Hover, and a Button is in
\* state Hover only if the most recently dispatched MouseMove point lies
\* within its bounds.
C34_HoverExclusive ==
    MovedOverRow
        => /\ Cardinality(Hovered) <= 1
           /\ \A n \in Hovered : ContainsPoint(n, call.arg.event.X, call.arg.event.Y)

\* what holds: a MouseMove changes the state of one Button at most, the one
\* whose HandleEvent returned true, and no Button offered the event after
\* that one; every Button stays enabled
C34_FirstConsumerOnly ==
    MovedOverRow
        => /\ \A n \in DOMAIN wid :
                  wid[n] # call.arg.before[n]
                      => /\ call.res
                         /\ call.log[Len(call.log)] = Entry("HandleEvent", n, 1,
                                CHOOSE k \in 1..Len(RowNodes) : RowNodes[k] = n, TRUE)
           /\ \A k \in 1..(Len(call.log) - 1) : call.log[k].ret = FALSE
           /\ \A n \in DOMAIN wid : wid[n].enabled

\* the pointer moved from the first Button onto the last, which is offered
\* the event first and consumes it: both are in state Hover
C34_TwoHovered ==
    /\ MovedOverRow /\ call.arg.event.X = 4 /\ call.arg.event.Y = 0
    /\ call.log = <<Entry("HandleEvent", "C", 1, 3, TRUE)>>
    /\ Hovered = {"A", "C"}

-----------------------------------------------------------------------------
(* Two Inputs side by side under one parent, clicked through the parent's   *)
(* HandleEvent (SpecPair).                                                  *)

PairNodes == <<"A", "B">>
PairTexts == {<<>>, <<"a">>, <<"a", "e">>}

InitPair ==
    /\ elem = RowOf(PairNodes)
    /\ \E texts \in [Members(PairNodes) -> PairTexts] :
          wid = [n \in Members(PairNodes) |-> SetText(NewInput, texts[n]).inp]
    /\ inp = NewInput
    /\ InitButtonIdle
    /\ InitLabelIdle
    /\ call = NoCall
    /\ InitWindowIdle
    /\ InitThreadsIdle

NextPair == \E px \in RowXs, py \in RowYs : WidgetsDeliver(RowParent, NewClickEvent(px, py))

SpecPair == InitPair /\ [][NextPair]_vars

\* the Inputs that have the focus
Focused == {n \in DOMAIN wid : wid[n].focused}

\* the last call was the parent's HandleEvent with a Click
ClickedOnPair == call.op = "HandleEvent" /\ call.arg.event.type = EventTypeClick

\* C35: for a parent with two Input children of disjoint bounds, after any
\* sequence of Clicks dispatched through the parent's HandleEvent at most
\* one Input has focused = true: clicking inside one Input unfocuses the
\* other.
C35_FocusExclusive ==
    ClickedOnPair
        => /\ Cardinality(Focused) <= 1
           /\ \A n \in DOMAIN wid :
                  ContainsPoint(n, call.arg.event.X, call.arg.event.Y) => Focused = {n}

\* what holds: a Click inside an Input focuses it, and no Click through the
\* parent takes the focus from an Input that has it
C35_FocusOnlyGained ==
    ClickedOnPair
        => /\ \A n \in DOMAIN wid :
                  ContainsPoint(n, call.arg.event.X, call.arg.event.Y)
                      => wid[n].focused /\ call.res
           /\ \A n \in DOMAIN wid : call.arg.before[n].focused => wid[n].focused

\* a Click inside the second Input while the first has the focus: the
\* second consumes the event, the first is not offered it, and both end
\* focused
C35_BothFocused ==
    /\ ClickedOnPair /\ call.arg.event.X = 2 /\ call.arg.event.Y = 0
    /\ call.arg.before["A"].focused /\ ~call.arg.before["B"].focused
    /\ call.log = <<Entry("HandleEvent", "B", 1, 2, TRUE)>>
    /\ Focused = {"A", "B"}

-----------------------------------------------------------------------------
(* Re-entrant dispatch: the host's thread calls HandleEvent on the root of  *)
(* the chain P - A; the handler of one of the two, run inside the dispatch, *)
(* calls a write mutator on P, on A or on the element C, which is no part   *)
(* of the dispatch (SpecReentrant).  mu is the RWMutex of the element the   *)
(* mutator is called on; the other mutexes have no second user.             *)

Host == "T1"
DispatchPath == <<Root, "A">>
Bystander == "C"
Adopted == "B"
DispatchTypes == {EventTypeClick, EventTypeKeyPress}

\* the number of dispatches that have returned to the host
Returned == IF call.op = "none" THEN 0 ELSE call.arg.nth

\* the host calls HandleEvent on the root with an event of the type; the
\* handler registered on the k-th element of the path will call the mutator
\* op on the target
StartDispatch(type, k, target, op) ==
    /\ thr[Host].pc = "idle"
    /\ Returned < MaxDispatches
    /\ op = "AddChild" => \A n \in Nodes : FirstIndex(elem[n].children, Adopted) = 0
    /\ op = "AddEventHandler"
           => Len(elem[target].handlers[EventTypeKeyPress]) < MaxContended
    /\ thr' = [thr EXCEPT ![Host] = [pc |-> "rlock", op |-> "HandleEvent", type |-> type,
                                     depth |-> 1, handler |-> k, target |-> target,
                                     mutator |-> op]]
    /\ UNCHANGED <<elem, mu, call, windowVars, componentVars>>

\* a lock operation of the host's thread on the mutex of element n: on mu
\* when n is the mutator's target, and on a mutex nobody else uses otherwise
OnMutexOf(n, operation, next) ==
    IF n = thr[Host].target THEN operation
    ELSE thr' = [thr EXCEPT ![Host].pc = next] /\ UNCHANGED mu

\* the next step of the dispatch the host's thread is executing
DispatchStep ==
    LET pc == thr[Host].pc
        at == DispatchPath[thr[Host].depth]
        below == DispatchPath[thr[Host].depth + 1]
    IN  \/ /\ pc = "rlock"                    \* e.mu.RLock() (gui.go:161)
           /\ LET next == IF thr[Host].type = EventTypeClick THEN "contains_rlock"
                          ELSE "children"
              IN  OnMutexOf(at, RLock(Host, next), next)
           /\ UNCHANGED <<elem, call, windowVars, componentVars>>
        \/ /\ pc = "contains_rlock"           \* e.ContainsPoint: e.mu.RLock() (gui.go:166, 135)
           /\ OnMutexOf(at, RLock(Host, "contains_runlock"), "contains_runlock")
           /\ UNCHANGED <<elem, call, windowVars, componentVars>>
        \/ /\ pc = "contains_runlock"         \* ContainsPoint returns (gui.go:136)
           /\ OnMutexOf(at, RUnlock(Host, "children"), "children")
           /\ UNCHANGED <<elem, call, windowVars, componentVars>>
        \/ /\ pc = "children"                 \* the children loop (gui.go:172-176)
           /\ thr' = IF thr[Host].depth < thr[Host].handler
                     THEN [thr EXCEPT ![Host].depth = @ + 1, ![Host].pc = "rlock"]
                     ELSE IF thr[Host].depth < Len(DispatchPath)
                     THEN [thr EXCEPT ![Host].pc = "child_rlock"]
                     ELSE [thr EXCEPT ![Host].pc = "handler"]
           /\ UNCHANGED <<elem, mu, call, windowVars, componentVars>>
        \/ /\ pc = "child_rlock"              \* a child that declines: its RLock (gui.go:161)
           /\ OnMutexOf(below, RLock(Host, "child_runlock"), "child_runlock")
           /\ UNCHANGED <<elem, call, windowVars, componentVars>>
        \/ /\ pc = "child_runlock"            \* and its deferred RUnlock (gui.go:162)
           /\ OnMutexOf(below, RUnlock(Host, "handler"), "handler")
           /\ UNCHANGED <<elem, call, windowVars, componentVars>>
        \/ /\ pc = "handler"                  \* handler.Handle(event) (gui.go:181)
           /\ thr' = [thr EXCEPT ![Host].pc = "lock"]
           /\ UNCHANGED <<elem, mu, call, windowVars, componentVars>>
        \/ /\ pc = "lock"                     \* e.mu.Lock() (gui.go:88, 95, 109, 116, 123, 192)
           /\ LockAnnounce(Host, "lock_wait")
           /\ UNCHANGED <<elem, call, windowVars, componentVars>>
        \/ /\ pc = "lock_wait"
           /\ LockAcquire(Host, "write")
           /\ UNCHANGED <<elem, call, windowVars, componentVars>>
        \/ /\ pc = "write"                    \* the assignment under the lock
           /\ elem' = WrittenTo(thr[Host].target, Adopted, thr[Host].mutator)
           /\ thr' = [thr EXCEPT ![Host].pc = "unlock"]
           /\ UNCHANGED <<mu, call, windowVars, componentVars>>
        \/ /\ pc = "unlock"                   \* deferred e.mu.Unlock()
           /\ Unlock(Host, "runlock")
           /\ UNCHANGED <<elem, call, windowVars, componentVars>>
        \/ /\ pc = "runlock"                  \* return true; deferred e.mu.RUnlock() (gui.go:162)
           /\ OnMutexOf(at, RUnlock(Host, "returned"), "returned")
           /\ UNCHANGED <<elem, call, windowVars, componentVars>>
        \/ /\ pc = "returned" /\ thr[Host].depth > 1   \* back in the parent's loop (gui.go:173-175)
           /\ thr' = [thr EXCEPT ![Host].depth = @ - 1, ![Host].pc = "runlock"]
           /\ UNCHANGED <<elem, mu, call, windowVars, componentVars>>
        \/ /\ pc = "returned" /\ thr[Host].depth = 1   \* back in the host
           /\ thr' = [thr EXCEPT ![Host] = Idle]
           /\ call' = Call("HandleEvent", Root, [made |-> thr[Host], nth |-> Returned + 1],
                           TRUE, <<>>)
           /\ UNCHANGED <<elem, mu, windowVars, componentVars>>

InitReentrant ==
    /\ elem = [n \in Nodes |->
                  IF n = Root THEN [NewElement(0, 0, 4, 4) EXCEPT !.children = <<"A">>]
                  ELSE IF n = "A" THEN [NewElement(0, 0, 4, 4) EXCEPT !.parent = Root]
                  ELSE NewElement(0, 0, 4, 4)]
    /\ call = NoCall
    /\ InitWindowIdle
    /\ InitComponentsIdle
    /\ thr = [t \in Threads |-> Idle]
    /\ mu = [readers |-> 0, writer |-> Nil, held |-> FALSE]

NextReentrant ==
    \/ \E type \in DispatchTypes, k \in 1..Len(DispatchPath),
          target \in Members(DispatchPath) \cup {Bystander}, op \in WriteOps :
          StartDispatch(type, k, target, op)
    \/ DispatchStep

\* the host's thread runs whenever it can
SpecReentrant == InitReentrant /\ [][NextReentrant]_vars /\ WF_vars(DispatchStep)

\* the elements whose read lock the dispatch holds: the path down to the
\* element it has reached
Dispatching == {DispatchPath[k] : k \in 1..thr[Host].depth}

\* C36: HandleEvent on a node returns even when a handler invoked
\* synchronously during that dispatch, on the node or on a descendant, calls
\* a write mutator (SetPosition, SetSize, SetVisible, AddChild, RemoveChild,
\* AddEventHandler) on the node or on an ancestor that is dispatching the
\* event, each such node's read lock being held for the whole recursion: the
\* dispatch is never left in a state from which its thread cannot go on.
C36_DispatchGoesOn == InCall(Host) => ENABLED DispatchStep

\* the same claim as a liveness property: every dispatch returns
C36_DispatchReturns == InCall(Host) ~> ~InCall(Host)

\* what holds: the dispatch stops only where its handler waits for the write
\* lock of an element that is dispatching the event, and it stops at every
\* such call
C36_StopsOnlyOnDispatching ==
    /\ InCall(Host) /\ ~ENABLED DispatchStep
           => /\ thr[Host].pc = "lock_wait" /\ thr[Host].target \in Dispatching
              /\ mu.writer = Host /\ mu.readers = 1
    /\ thr[Host].pc \in {"write", "unlock"} => thr[Host].target \notin Dispatching

\* a mutator called on an element that is not dispatching returns, and so
\* does the dispatch
C36_BystanderReturns ==
    (InCall(Host) /\ thr[Host].target = Bystander) ~> ~InCall(Host)

\* the handler of the root called SetSize on the root and waits for its
\* write lock, which the root's own read lock keeps from it
C36_SelfDeadlock ==
    /\ thr[Host].pc = "lock_wait" /\ thr[Host].handler = 1 /\ thr[Host].target = Root
    /\ thr[Host].mutator = "SetSize" /\ thr[Host].type = EventTypeKeyPress
    /\ mu = [readers |-> 1, writer |-> Host, held |-> FALSE]

\* the handler of the root called AddChild on its child, which had declined
\* the event and released its lock, and the dispatch returned
C36_ReturnedWitness ==
    /\ ~InCall(Host) /\ call.op = "HandleEvent" /\ call.arg.made.mutator = "AddChild"
    /\ call.arg.made.target = "A" /\ call.arg.made.handler = 1
    /\ elem["A"].children = <<Adopted>>
    /\ mu = [readers |-> 0, writer |-> Nil, held |-> FALSE]

====
